---- MODULE Spec2Model ----
(***************************************************************************)
(* Content-optimiser: the per-type content helpers, the process_file       *)
(* orchestrator of ContentHelperBase (and MarkdownHelper's override), and   *)
(* the UnifiedOptimizer dispatcher.                                         *)
(*                                                                          *)
(* Text is a sequence of one-character strings.  Every text operation of    *)
(* the helpers (str.replace, str.strip, the regular expressions) is         *)
(* computed character by character.  A regular expression of the source     *)
(* that cannot match any text built from the alphabet below is modelled as  *)
(* leaving the text unchanged, and says so where it is applied.             *)
(***************************************************************************)
EXTENDS Integers, Sequences, FiniteSets, TLC

(***************************************************************************)
(* Bounds of the model                                                      *)
(***************************************************************************)
\* number of pieces concatenated to form a file's content
MaxPieces == 2
\* number of distinct fenced code blocks in the many-block contents
MaxBlocks == 11
\* length of the longest content that holds a null character
MaxNulLen == 38

(***************************************************************************)
(* Characters and strings                                                   *)
(***************************************************************************)
\* the backtick and the NUL character cannot be written in a TLA+ string:
\* each is one character of the text, written by name
NL == "\n"
BT == "BACKTICK"
NUL == "NUL"
None == <<"None">>

LowerLetters == <<"a","b","c","d","e","f","g","h","i","j","k","l","m","n","o","p","q","r","s","t","u","v","w","x","y","z">>
UpperLetters == <<"A","B","C","D","E","F","G","H","I","J","K","L","M","N","O","P","Q","R","S","T","U","V","W","X","Y","Z">>
DigitChars == <<"0","1","2","3","4","5","6","7","8","9">>

Range(f) == {f[i] : i \in DOMAIN f}

IsLower(c) == c \in Range(LowerLetters)
IsUpper(c) == c \in Range(UpperLetters)
IsDigit(c) == c \in Range(DigitChars)
\* [a-zA-Z0-9]
IsAlnum(c) == IsLower(c) \/ IsUpper(c) \/ IsDigit(c)
\* \w
IsWord(c) == IsAlnum(c) \/ c = "_"
\* \s
IsSpace(c) == c \in {" ", NL, "\t", "\r"}
\* [a-f0-9]
IsHex(c) == IsDigit(c) \/ c \in {"a","b","c","d","e","f"}
\* [\w &'-]
IsNavChar(c) == IsWord(c) \/ c \in {" ", "&", "'", "-"}

\* str.lower() on one character
LowerChar(c) == IF IsUpper(c) THEN LowerLetters[CHOOSE i \in 1..26 : UpperLetters[i] = c] ELSE c
Lower(s) == [i \in 1..Len(s) |-> LowerChar(s[i])]

\* s has p at position i
IsAt(s, i, p) == /\ i >= 1
                 /\ i + Len(p) - 1 <= Len(s)
                 /\ \A k \in 1..Len(p) : s[i + k - 1] = p[k]

EndsWith(s, p) == Len(p) <= Len(s) /\ IsAt(s, Len(s) - Len(p) + 1, p)

\* p occurs in s
Contains(s, p) == \E i \in 1..(Len(s) - Len(p) + 1) : IsAt(s, i, p)

Min(S) == CHOOSE x \in S : \A y \in S : x <= y
Max(S) == CHOOSE x \in S : \A y \in S : y <= x
MinOr0(S) == IF S = {} THEN 0 ELSE Min(S)
MaxOr0(S) == IF S = {} THEN 0 ELSE Max(S)

\* smallest index >= i at which p occurs in s, 0 when there is none
FindFrom(s, p, i) == MinOr0({k \in i..(Len(s) - Len(p) + 1) : IsAt(s, k, p)})

\* str.replace(old, new): s[i..] with the occurrences of old replaced, left to
\* right and not overlapping; k is the next occurrence, 0 when there is none
RECURSIVE ReplaceFrom(_, _, _, _)
ReplaceAt(s, old, new, i, k) ==
    IF k = 0 THEN SubSeq(s, i, Len(s))
    ELSE SubSeq(s, i, k - 1) \o new \o ReplaceFrom(s, old, new, k + Len(old))

ReplaceFrom(s, old, new, i) ==
    ReplaceAt(s, old, new, i, IF old = <<>> THEN 0 ELSE FindFrom(s, old, i))

Replace(s, old, new) == ReplaceFrom(s, old, new, 1)

\* decimal digits of a natural number, as str(i)
RECURSIVE Digits(_)
Digits(n) == IF n < 10 THEN <<DigitChars[n + 1]>>
             ELSE Digits(n \div 10) \o <<DigitChars[(n % 10) + 1]>>

RECURSIVE Rep(_, _)
Rep(c, n) == IF n <= 0 THEN <<>> ELSE <<c>> \o Rep(c, n - 1)

RECURSIVE ConcatAll(_)
ConcatAll(ss) == IF ss = <<>> THEN <<>> ELSE Head(ss) \o ConcatAll(Tail(ss))

\* str.strip(): leading and trailing whitespace
RECURSIVE LStrip(_)
LStrip(s) == IF s # <<>> /\ IsSpace(Head(s)) THEN LStrip(Tail(s)) ELSE s
RECURSIVE RStrip(_)
RStrip(s) == IF s # <<>> /\ IsSpace(s[Len(s)]) THEN RStrip(SubSeq(s, 1, Len(s) - 1)) ELSE s
Strip(s) == RStrip(LStrip(s))

\* str.rstrip('\n')
RECURSIVE RStripNL(_)
RStripNL(s) == IF s # <<>> /\ s[Len(s)] = NL THEN RStripNL(SubSeq(s, 1, Len(s) - 1)) ELSE s

\* length of the run of newlines of s that starts at i
RECURSIVE NLRun(_, _)
NLRun(s, i) == IF i <= Len(s) /\ s[i] = NL THEN 1 + NLRun(s, i + 1) ELSE 0

\* re.sub(r'\n{3,}', '\n\n', s); k is the next run of three newlines, 0 when there is none
RECURSIVE CollapseFrom(_, _)
CollapseAt(s, i, k) ==
    IF k = 0 THEN SubSeq(s, i, Len(s))
    ELSE SubSeq(s, i, k - 1) \o <<NL, NL>> \o CollapseFrom(s, k + NLRun(s, k))

CollapseFrom(s, i) == CollapseAt(s, i, FindFrom(s, <<NL, NL, NL>>, i))

CollapseBlankLines(s) == CollapseFrom(s, 1)


\* index of the first newline at or after p, Len(s) + 1 when there is none
OrElse(k, d) == IF k = 0 THEN d ELSE k
LineEnd(s, p) == OrElse(FindFrom(s, <<NL>>, p), IF p > Len(s) THEN p ELSE Len(s) + 1)

\* index of the first character at or after p that is not whitespace
RECURSIVE SkipWs(_, _)
SkipWs(s, p) == IF p <= Len(s) /\ IsSpace(s[p]) THEN SkipWs(s, p + 1) ELSE p


\* str.split('\n'); e is the end of the first line
RECURSIVE SplitLines(_)
SplitAt(s, e) == IF e > Len(s) THEN <<s>>
                 ELSE <<SubSeq(s, 1, e - 1)>> \o SplitLines(SubSeq(s, e + 1, Len(s)))

SplitLines(s) == SplitAt(s, LineEnd(s, 1))

\* '\n'.join(lines)
RECURSIVE JoinLines(_)
JoinLines(ls) == IF ls = <<>> THEN <<>>
                 ELSE IF Len(ls) = 1 THEN ls[1]
                 ELSE ls[1] \o <<NL>> \o JoinLines(Tail(ls))

(***************************************************************************)
(* Fenced code blocks                                                       *)
(***************************************************************************)
Fence == <<BT, BT, BT>>

\* the language tag of a fence: [a-zA-Z0-9]* in markdown_helper, [\w]* in docs_helper
LangChar(kind, c) == IF kind = "docs" THEN IsWord(c) ELSE IsAlnum(c)

RECURSIVE SkipLang(_, _, _)
SkipLang(s, j, kind) == IF j <= Len(s) /\ LangChar(kind, s[j]) THEN SkipLang(s, j + 1, kind) ELSE j

\* the index after a match of ```lang\n.*?``` (DOTALL) that starts at i, 0 when
\* none starts there; j is the index after the language tag, k the closing fence
BlockClose(k) == IF k = 0 THEN 0 ELSE k + 3
BlockBody(s, j) == IF j <= Len(s) /\ s[j] = NL THEN BlockClose(FindFrom(s, Fence, j + 1)) ELSE 0
MatchBlockEnd(s, i, kind) == IF ~IsAt(s, i, Fence) THEN 0 ELSE BlockBody(s, SkipLang(s, i + 3, kind))

\* pattern.findall(s): the matched texts, left to right, not overlapping; k is
\* the start of the next match (0: none) and e the index after it
RECURSIVE CodeBlocksFrom(_, _, _)
BlocksAt(s, k, e, kind) ==
    IF k = 0 THEN <<>> ELSE <<SubSeq(s, k, e - 1)>> \o CodeBlocksFrom(s, e, kind)

BlocksFirst(s, k, kind) == BlocksAt(s, k, IF k = 0 THEN 0 ELSE MatchBlockEnd(s, k, kind), kind)

CodeBlocksFrom(s, i, kind) ==
    BlocksFirst(s, MinOr0({k \in i..Len(s) : MatchBlockEnd(s, k, kind) > 0}), kind)

code_block_pattern(s) == CodeBlocksFrom(s, 1, "markdown")
DOC_CODE_BLOCK_PATTERN(s) == CodeBlocksFrom(s, 1, "docs")

(***************************************************************************)
(* Placeholders                                                             *)
(***************************************************************************)
CODE_BLOCK_ == <<"C","O","D","E","_","B","L","O","C","K","_">>

\* f"CODE_BLOCK_{i}" (markdown_helper), i counted from 0
MdCodeToken(i) == CODE_BLOCK_ \o Digits(i)
\* f"__CODE_BLOCK_{i}__" (docs_helper)
DocsCodeToken(i) == <<"_","_">> \o CODE_BLOCK_ \o Digits(i) \o <<"_","_">>

\* for placeholder, block in pairs: content = content.replace(block, placeholder);
\* t is the content after the first pair
RECURSIVE ParkAll(_, _)
ParkNext(s, t, rest) == IF t = s THEN ParkAll(s, rest) ELSE ParkAll(t, rest)
ParkAll(s, pairs) ==
    IF pairs = <<>> THEN s
    ELSE ParkNext(s, Replace(s, pairs[1].fragment, pairs[1].token), Tail(pairs))

\* for placeholder, block in pairs: content = content.replace(placeholder, block)
RECURSIVE RestoreAll(_, _)
RestoreNext(s, t, rest) == IF t = s THEN RestoreAll(s, rest) ELSE RestoreAll(t, rest)
RestoreAll(s, pairs) ==
    IF pairs = <<>> THEN s
    ELSE RestoreNext(s, Replace(s, pairs[1].token, pairs[1].fragment), Tail(pairs))

(***************************************************************************)
(* optimization_rules.py                                                    *)
(***************************************************************************)
\* The catalogue, in its order, each rule with the tier its comment gives it.
OPTIMIZATION_RULES_ORDERED ==
    << [name |-> "Scraper Warning", tier |-> 1],
       [name |-> "Published Time", tier |-> 1],
       [name |-> "WP Tracking Pixel", tier |-> 1],
       [name |-> "Meta Title/URL", tier |-> 1],
       [name |-> "WP Comment Prompt", tier |-> 1],
       [name |-> "WP Cookie Notice", tier |-> 1],
       [name |-> "Form Content", tier |-> 1],
       [name |-> "GitHub Link", tier |-> 1],
       [name |-> "Redundant Headers", tier |-> 1],
       [name |-> "Weebly Header Table", tier |-> 2],
       [name |-> "Modal Docs Header", tier |-> 2],
       [name |-> "WP Nav List", tier |-> 2],
       [name |-> "WP Sidebar Sections", tier |-> 2],
       [name |-> "WP Slider Nav", tier |-> 2],
       [name |-> "Consecutive Markdown Link List", tier |-> 2],
       [name |-> "Logo Image Line", tier |-> 3],
       [name |-> "Markdown Horizontal Rule", tier |-> 3],
       [name |-> "Sutton Quaker Dotted Footer", tier |-> 3],
       [name |-> "Weebly Footer", tier |-> 3],
       [name |-> "WP Address/Connect Footer", tier |-> 3],
       [name |-> "Trailing Nav Links", tier |-> 4],
       [name |-> "Simple Text Nav Menu", tier |-> 4],
       [name |-> "General Website Header", tier |-> 4],
       [name |-> "General Website Footer", tier |-> 4],
       [name |-> "Zero Width Space", tier |-> 5],
       [name |-> "Duplicate Headings", tier |-> 6],
       [name |-> "Enhanced Form Content", tier |-> 6] >>

\* SIMPLE_TEXT_NAV_MENU_PATTERN:
\*   ^(?:(?=.{1,60}$)\s*[A-Z][\w &'-]+(?:\s+[A-Z][\w &'-]+){0,4}(?<![.?!])\s*\n){4,}
\* [A-Z][\w &'-]+ that starts at q: the index after the run, 0 when it does not match
RECURSIVE NavRunEnd(_, _)
NavRunEnd(s, p) == IF p <= Len(s) /\ IsNavChar(s[p]) THEN NavRunEnd(s, p + 1) ELSE p

WordEnd(s, q, r) == IF q <= Len(s) /\ IsUpper(s[q]) /\ r > q + 1 THEN r ELSE 0
WordStart(s, q) == WordEnd(s, q, NavRunEnd(s, q + 1))

\* \s*\n at r: the index after the last newline of the whitespace at r, 0 when it has none
UnitTail(s, r) == MaxOr0({i + 1 : i \in {j \in r..(SkipWs(s, r) - 1) : s[j] = NL}})

\* the ends of one repetition whose last word ends at r, with `left` more
\* (?:\s+[A-Z]...) allowed; tail is UnitTail at r and w the end of the whitespace at r
RECURSIVE GroupEnds(_, _, _)
GroupEndsAt(s, r, left, tail, w) ==
    (IF tail # 0 THEN {tail} ELSE {})
    \cup (IF left > 0 /\ w > r THEN GroupEnds(s, WordStart(s, w), left - 1) ELSE {})

GroupEnds(s, r, left) ==
    IF r = 0 THEN {} ELSE GroupEndsAt(s, r, left, UnitTail(s, r), SkipWs(s, r))

\* the ends of one repetition that starts at p
UnitEnds(s, p) == IF LineEnd(s, p) - p \in 1..60
                  THEN GroupEnds(s, WordStart(s, SkipWs(s, p)), 4)
                  ELSE {}

\* positions reached from the start of the match, with the number of repetitions (4 = four or more)
NavStep(s, R) ==
    R \cup UNION { { <<e, IF x[2] >= 3 THEN 4 ELSE x[2] + 1>> : e \in UnitEnds(s, x[1]) } : x \in R }

RECURSIVE NavReach(_, _)
NavReachTo(s, R, step) == IF step = R THEN R ELSE NavReach(s, step)
NavReach(s, R) == NavReachTo(s, R, NavStep(s, R))

\* the index after the match that starts at p, 0 when none starts there
NavMatchEnd(s, p) == MaxOr0({x[1] : x \in {y \in NavReach(s, {<<p, 0>>}) : y[2] = 4}})

\* SIMPLE_TEXT_NAV_MENU_PATTERN.sub('', s); k is the start of the next match, 0 when there is none
RECURSIVE NavMenuSubFrom(_, _)
NavSubAt(s, p, k) ==
    IF k = 0 THEN SubSeq(s, p, Len(s))
    ELSE SubSeq(s, p, k - 1) \o NavMenuSubFrom(s, NavMatchEnd(s, k))

NavMenuSubFrom(s, p) ==
    NavSubAt(s, p, MinOr0({k \in p..Len(s) : (k = 1 \/ s[k - 1] = NL) /\ NavMatchEnd(s, k) > 0}))

SIMPLE_TEXT_NAV_MENU_PATTERN(s) == NavMenuSubFrom(s, 1)

\* the index after the run of '#' at p
RECURSIVE HashRunEnd(_, _)
HashRunEnd(s, p) == IF p <= Len(s) /\ s[p] = "#" THEN HashRunEnd(s, p + 1) ELSE p

\* REDUNDANT_HEADERS_PATTERN:  ^(?:#+ .+)\n+(?:#+ .+)$  (MULTILINE)
\* #+ .+ at p, where the '#'s end at h: the index after the line, 0 when the
\* line is not '#'s, a space and one more character
HeaderLineAfter(s, p, h) ==
    IF h > p /\ h + 1 <= Len(s) /\ s[h] = " " /\ s[h + 1] # NL THEN LineEnd(s, h + 1) ELSE 0

HeaderLineEnd(s, p) == HeaderLineAfter(s, p, HashRunEnd(s, p))

\* the index after the match at p, 0 when there is none; e is the index after
\* the first heading line
RedundantSecond(s, e) == IF e = 0 \/ e > Len(s) THEN 0 ELSE HeaderLineEnd(s, e + NLRun(s, e))
RedundantMatchEnd(s, p) == RedundantSecond(s, HeaderLineEnd(s, p))

\* REDUNDANT_HEADERS_PATTERN.sub('', s) from p on; k is the start of the next match (0: none)
RECURSIVE RedundantSubFrom(_, _)
RedundantSubAt(s, p, k) ==
    IF k = 0 THEN SubSeq(s, p, Len(s))
    ELSE SubSeq(s, p, k - 1) \o RedundantSubFrom(s, RedundantMatchEnd(s, k))

RedundantSubFrom(s, p) ==
    RedundantSubAt(s, p, MinOr0({k \in p..Len(s) : (k = 1 \/ s[k - 1] = NL) /\ RedundantMatchEnd(s, k) > 0}))

REDUNDANT_HEADERS_PATTERN(s) == RedundantSubFrom(s, 1)

\* DUPLICATE_HEADING_PATTERN:  ^(#+\s+.+?)\n+\1(?:\n+\1)*  (MULTILINE)
\* (?:\n+\1)* at e: the index after the last repetition of the group's text
RECURSIVE DupRepeatEnd(_, _, _)
DupRepeatEnd(s, e, grp) ==
    IF e <= Len(s) /\ s[e] = NL /\ IsAt(s, e + NLRun(s, e), grp)
    THEN DupRepeatEnd(s, e + NLRun(s, e) + Len(grp), grp)
    ELSE e

\* \n+\1(?:\n+\1)* at g, the newline that ends group 1 (the text from p to
\* g - 1): the index after the match, 0 when the group's text does not follow
DupAfterGroup(s, p, g) ==
    IF g <= Len(s) /\ IsAt(s, g + NLRun(s, g), SubSeq(s, p, g - 1))
    THEN DupRepeatEnd(s, g + NLRun(s, g) + (g - p), SubSeq(s, p, g - 1))
    ELSE 0

\* \s+ takes k characters after the '#'s that end at h and .+? the rest of the line
DupWithSpaces(s, p, h, k) ==
    IF h + k <= Len(s) /\ s[h + k] # NL THEN DupAfterGroup(s, p, LineEnd(s, h + k)) ELSE 0

\* the match at p: \s+ takes the most characters with which the rest matches
DupTry(s, p, h, ks) == IF ks = {} THEN 0 ELSE DupWithSpaces(s, p, h, Max(ks))
DupFrom(s, p, h) ==
    IF h = p THEN 0
    ELSE DupTry(s, p, h, {k \in 1..(SkipWs(s, h) - h) : DupWithSpaces(s, p, h, k) > 0})

DupMatchEnd(s, p) == DupFrom(s, p, HashRunEnd(s, p))

\* DUPLICATE_HEADING_PATTERN.sub('', s) from p on; k is the start of the next match (0: none)
RECURSIVE DuplicateSubFrom(_, _)
DuplicateSubAt(s, p, k) ==
    IF k = 0 THEN SubSeq(s, p, Len(s))
    ELSE SubSeq(s, p, k - 1) \o DuplicateSubFrom(s, DupMatchEnd(s, k))

DuplicateSubFrom(s, p) ==
    DuplicateSubAt(s, p, MinOr0({k \in p..Len(s) : (k = 1 \/ s[k - 1] = NL) /\ DupMatchEnd(s, k) > 0}))

DUPLICATE_HEADING_PATTERN(s) == DuplicateSubFrom(s, 1)

\* pattern.sub('', content) for the rule of that name.  The texts of this
\* model are of two kinds.  On the first (the letters a..l, newline, and the
\* CODE_BLOCK_n tokens that stand for the fenced blocks) only the nav-menu
\* pattern can match.  On the second (lines of '#', space and letters) only
\* the two heading patterns can match.  Every other pattern of the catalogue
\* needs a character or a word that these texts do not have (<, [, :, -, *, a
\* zero-width space, or one of the words Published, Subscribe, Powered by,
\* Address, ...).
ApplyRule(name, s) ==
    CASE name = "Simple Text Nav Menu" -> SIMPLE_TEXT_NAV_MENU_PATTERN(s)
      [] name = "Redundant Headers"    -> REDUNDANT_HEADERS_PATTERN(s)
      [] name = "Duplicate Headings"   -> DUPLICATE_HEADING_PATTERN(s)
      [] OTHER                         -> s


\* a stats mapping: the keys present, the sum of the rule counts, and the
\* values of the entries that the orchestrators read or write
NoStats == [keys |-> {}, total |-> 0, size_increased |-> 0, reverted_to_original |-> FALSE,
            error |-> "", fired |-> {}]

ErrorStats(msg) == [NoStats EXCEPT !.keys = {"error"}, !.error = msg]

(***************************************************************************)
(* Files of the model                                                       *)
(***************************************************************************)
Block(body) == Fence \o <<NL>> \o body \o Fence

\* the pieces a content is concatenated from: a letter, a newline, a fenced
\* block, a fenced block with blank lines in it, a fenced block with a
\* '# ...' line in it
BasicPieces == { <<"a">>,
                 <<NL>>,
                 Block(<<"b">>),
                 Block(<<"c", NL, NL, NL, "d">>),
                 Block(<<"#", " ", "e", NL, "f">>) }

PiecedContents == { ConcatAll(ps) : ps \in UNION { [1..n -> BasicPieces] : n \in 0..MaxPieces } }

\* n different fenced blocks, each followed by sep
ManyBlocks(n, sep) == ConcatAll([i \in 1..n |-> Block(<<LowerLetters[i]>>) \o sep])

BlockContents == { ManyBlocks(n, sep) : n \in (MaxBlocks - 1)..MaxBlocks, sep \in {<<NL>>, <<"a">>} }

Contents == PiecedContents \cup BlockContents

NotionId == Rep("a", 32)
PathTxt == <<"x", ".", "t", "x", "t">>
PathMdc == <<"x", ".", "m", "d", "c">>
PathNotion == <<"p", " ">> \o NotionId \o <<".", "m", "d">>
Paths == {PathTxt, PathMdc, PathNotion}

HelperTypes == <<"notion", "email", "code", "docs", "markdown">>

(***************************************************************************)
(* markdown_helper.py                                                       *)
(***************************************************************************)
\* the (placeholder, block) pairs of the blocks found, CODE_BLOCK_0 first
MdPairs(blocks) == [i \in 1..Len(blocks) |-> [token |-> MdCodeToken(i - 1), fragment |-> blocks[i]]]

\* MarkdownHelper.preprocess_content with the default configuration.  The
\* contents have no '---', '|', '<', '![' or '[': there is no frontmatter and
\* the tables, html_blocks, images and links lists stay empty.
MdParked(content, path, blocks) ==
    [content |-> ParkAll(content, MdPairs(blocks)),
     blocks |-> blocks,
     is_mdc |-> path # None /\ path # <<>> /\ EndsWith(Lower(path), <<".", "m", "d", "c">>),
     is_cursorrules |-> path # None /\ path # <<>>
                        /\ ~EndsWith(Lower(path), <<".", "m", "d", "c">>)
                        /\ EndsWith(Lower(path), <<".", "c", "u", "r", "s", "o", "r", "r", "u", "l", "e", "s">>)]

MdPreprocess(content, path) ==
    IF content = <<>>
    THEN [content |-> <<>>, blocks |-> <<>>, is_mdc |-> FALSE, is_cursorrules |-> FALSE]
    ELSE MdParked(content, path, code_block_pattern(content))

MdSkippedForMdc == {"WP Nav List", "WP Sidebar Sections", "WP Slider Nav",
                    "Consecutive Markdown Link List", "Simple Text Nav Menu"}

\* for rule_name, pattern in OPTIMIZATION_RULES_ORDERED: content = pattern.sub('', content);
\* t is the content after the first rule
RECURSIVE ApplyRules(_, _, _, _)
ApplyNext(s, t, r, rest, conservative, fired) ==
    IF t # s THEN ApplyRules(t, rest, conservative, fired \cup {r})
    ELSE ApplyRules(s, rest, conservative, fired)

ApplyRules(s, rules, conservative, fired) ==
    IF rules = <<>> THEN [raised |-> FALSE, text |-> s, stats |-> [NoStats EXCEPT !.fired = fired]]
    ELSE ApplyNext(s,
                   IF conservative /\ Head(rules).name \in MdSkippedForMdc
                   THEN s ELSE ApplyRule(Head(rules).name, s),
                   Head(rules).name, Tail(rules), conservative, fired)

\* MarkdownHelper.optimize_content: the text and the stats it returns.  When
\* `import optimization_rules` fails the except branch leaves rule_trigger_stats
\* unbound and building the stats raises NameError.  The redundant-link fix
\* needs '[' and changes nothing.
MdOptimize(data, importable) ==
    IF ~importable
    THEN [raised |-> TRUE, text |-> CollapseBlankLines(data.content), stats |-> NoStats]
    ELSE ApplyRules(data.content, OPTIMIZATION_RULES_ORDERED, data.is_mdc \/ data.is_cursorrules, {})

\* the value of a variable that holds preprocessed data before it is assigned
NoData == [unset |-> TRUE]

\* MarkdownHelper.postprocess_content; data is self._preprocessed_data (NoData:
\* the attribute does not exist and the content is returned as is)
MdPostprocess(content, data) ==
    IF data = NoData THEN content
    ELSE CollapseBlankLines(RestoreAll(content, MdPairs(data.blocks)))

(***************************************************************************)
(* docs_helper.py                                                           *)
(***************************************************************************)
DocsPairs(blocks) == [i \in 1..Len(blocks) |-> [token |-> DocsCodeToken(i - 1), fragment |-> blocks[i]]]

\* DocsHelper.preprocess_content
DocsPreprocess(content, path) ==
    [content |-> content,
     blocks |-> IF content = <<>> THEN <<>> ELSE DOC_CODE_BLOCK_PATTERN(content),
     is_mdc |-> FALSE, is_cursorrules |-> FALSE]

\* DocsHelper.optimize_content with the default configuration: the two pattern
\* names looked up in globals() are not defined in docs_helper, the TOC and
\* version rules are switched off, and the breadcrumb and edit-banner patterns
\* need the words Home/Index/Main or 'Last updated:' at a line start.
DocsOptimize(data) ==
    IF data.content = <<>> THEN <<>>
    ELSE RestoreAll(ParkAll(data.content, DocsPairs(data.blocks)), DocsPairs(data.blocks))

\* (^#+\s+.*?)(\n)(?!\n) at line start p: the index of the newline matched by
\* group 2, 0 when no match; h is the end of the '#' run, w of the whitespace after it
HeaderStop(s, r) == r <= Len(s) /\ ~(r + 1 <= Len(s) /\ s[r + 1] = NL)
HeaderPick(s, h, ks) == IF ks = {} THEN 0 ELSE LineEnd(s, h + Max(ks))
HeaderFrom(s, h) == HeaderPick(s, h, {k \in 1..(SkipWs(s, h) - h) : HeaderStop(s, LineEnd(s, h + k))})
HeaderMatchNL(s, p) == HeaderFrom(s, HashRunEnd(s, p))

\* re.sub(r'(^#+\s+.*?)(\n)(?!\n)', r'\1\n\n', s, flags=re.MULTILINE); k is
\* the start of the next match (0: none), r the newline it ends with
RECURSIVE HeaderSpacingFrom(_, _)
HeaderSpacingAt(s, p, k, r) ==
    IF k = 0 THEN SubSeq(s, p, Len(s))
    ELSE SubSeq(s, p, r - 1) \o <<NL, NL>> \o HeaderSpacingFrom(s, r + 1)

HeaderSpacingFirst(s, p, k) == HeaderSpacingAt(s, p, k, IF k = 0 THEN 0 ELSE HeaderMatchNL(s, k))

HeaderSpacingFrom(s, p) ==
    HeaderSpacingFirst(s, p, MinOr0({k \in p..Len(s) : (k = 1 \/ s[k - 1] = NL) /\ s[k] = "#"
                                                      /\ HeaderMatchNL(s, k) > 0}))

\* DocsHelper.postprocess_content
DocsPostprocess(content) ==
    IF content = <<>> THEN content
    ELSE HeaderSpacingFrom(CollapseBlankLines(Strip(content)), 1)

(***************************************************************************)
(* code_helper.py                                                           *)
(***************************************************************************)
\* CodeHelper.optimize_content with the default configuration (remove_logs off,
\* TODOs and imports preserved): the three boilerplate patterns need '/*', '//',
\* '"""' or one of the words Copyright, License, Author, Created by.
CodeOptimize(content) == content

\* CodeHelper.postprocess_content
CodePostprocess(content) == IF content = <<>> THEN content ELSE RStripNL(content) \o <<NL>>

(***************************************************************************)
(* email_helper.py                                                          *)
(***************************************************************************)
\* the quote depth of a line: the '>' among its leading '>' and whitespace
RECURSIVE QuoteLevel(_, _)
QuoteLevel(line, i) == IF i > Len(line) THEN 0
                       ELSE IF line[i] = ">" THEN 1 + QuoteLevel(line, i + 1)
                       ELSE IF IsSpace(line[i]) THEN QuoteLevel(line, i + 1)
                       ELSE 0

Fenced(section) == <<<<"-", "-", "-">>>> \o section \o <<<<"-", "-", "-">>>>

\* the loop of EmailHelper._limit_quote_depth over lines[i..]; lvl is the quote depth of lines[i]
RECURSIVE QuoteLoop(_, _, _, _, _, _)
QuoteStep(lines, i, result, section, in_quote, max_depth, lvl) ==
    IF lvl > 0
    THEN QuoteLoop(lines, i + 1, result,
                   IF lvl <= max_depth THEN Append(section, lines[i]) ELSE section,
                   TRUE, max_depth)
    ELSE QuoteLoop(lines, i + 1,
                   (IF in_quote /\ section # <<>> /\ max_depth > 0
                    THEN result \o Fenced(section) ELSE result) \o <<lines[i]>>,
                   IF in_quote THEN <<>> ELSE section,
                   FALSE, max_depth)

QuoteLoop(lines, i, result, section, in_quote, max_depth) ==
    IF i > Len(lines)
    THEN IF in_quote /\ section # <<>> /\ max_depth > 0 THEN result \o Fenced(section) ELSE result
    ELSE QuoteStep(lines, i, result, section, in_quote, max_depth, QuoteLevel(lines[i], 1))

\* EmailHelper._limit_quote_depth
LimitQuoteDepth(s, max_depth) == JoinLines(QuoteLoop(SplitLines(s), 1, <<>>, <<>>, FALSE, max_depth))

max_quote_depth == 1

\* EMAIL_SIGNATURE_PATTERN:
\*   (?:^--+\s*$\n)(?:.+\n)*(?:.*?@.*?\n)?(?:.*?(?:T|t)el[:\.].*?\n)?(?:.*?(?:www|http).*?\n)?
\* the index after the run of '-' at p
RECURSIVE DashesEnd(_, _)
DashesEnd(s, p) == IF p <= Len(s) /\ s[p] = "-" THEN DashesEnd(s, p + 1) ELSE p

\* ^--+\s*$\n at p, where the '-' end at d: the index after the last newline
\* of the whitespace that follows them, 0 when there are not two '-' or no newline
SignatureRuleEnd(s, p, d) ==
    IF d < p + 2 THEN 0
    ELSE MaxOr0({x + 1 : x \in {y \in d..(SkipWs(s, d) - 1) : s[y] = NL}})

\* (?:.+\n)* at q: the index after the last of the lines that are not empty
\* and end in a newline.  The three optional groups that follow each need a
\* line that ends in a newline: after the lines taken here there is none
RECURSIVE SignatureLinesEnd(_, _)
SignatureLinesEnd(s, q) ==
    IF LineEnd(s, q) <= Len(s) /\ LineEnd(s, q) > q
    THEN SignatureLinesEnd(s, LineEnd(s, q) + 1)
    ELSE q

\* the index after the match at p, 0 when there is none
SignatureBody(s, q) == IF q = 0 THEN 0 ELSE SignatureLinesEnd(s, q)
SignatureMatchEnd(s, p) == SignatureBody(s, SignatureRuleEnd(s, p, DashesEnd(s, p)))

\* the start of the first match at or after p, 0 when there is none
SignatureSearch(s, p) ==
    MinOr0({k \in p..Len(s) : (k = 1 \/ s[k - 1] = NL) /\ SignatureMatchEnd(s, k) > 0})

\* EMAIL_SIGNATURE_PATTERN.subn('', s) from p on: the text, and the number of matches
RECURSIVE SignatureSubFrom(_, _)
SignatureSubAt(s, p, k) ==
    IF k = 0 THEN SubSeq(s, p, Len(s))
    ELSE SubSeq(s, p, k - 1) \o SignatureSubFrom(s, SignatureMatchEnd(s, k))

SignatureSubFrom(s, p) == SignatureSubAt(s, p, SignatureSearch(s, p))

RECURSIVE SignatureCountFrom(_, _)
SignatureCountAt(s, k) == IF k = 0 THEN 0 ELSE 1 + SignatureCountFrom(s, SignatureMatchEnd(s, k))
SignatureCountFrom(s, p) == SignatureCountAt(s, SignatureSearch(s, p))

EmailSignaturesRemoved(s) == SignatureSubFrom(s, 1)

\* EmailHelper.optimize_content on plain text with the default configuration
\* (max_quote_depth 1, nothing preserved): the quotes are limited, then the
\* signatures are removed.  The header, disclaimer and footer patterns need
\* ':' or the words DISCLAIMER, CONFIDENTIAL, LEGAL NOTICE, Sent from/via.
EmailOptimize(content) ==
    IF content = <<>> THEN content
    ELSE EmailSignaturesRemoved(LimitQuoteDepth(content, max_quote_depth))

\* the stats of EmailHelper.optimize_content: "Email Quotes Truncated" is 1,
\* "Email Signatures" the number of matches when there is one
EmailCounted(n) ==
    IF n = 0 THEN [NoStats EXCEPT !.keys = {"Email Quotes Truncated"}, !.total = 1]
    ELSE [NoStats EXCEPT !.keys = {"Email Quotes Truncated", "Email Signatures"}, !.total = 1 + n]

EmailOptimizeStats(content) ==
    IF content = <<>> THEN NoStats
    ELSE EmailCounted(SignatureCountFrom(LimitQuoteDepth(content, max_quote_depth), 1))

\* EmailHelper.postprocess_content
EmailPostprocess(content) == IF content = <<>> THEN content ELSE CollapseBlankLines(Strip(content))

(***************************************************************************)
(* notion_helper.py                                                         *)
(***************************************************************************)
\* os.path.basename; k is the first '/'
RECURSIVE Basename(_)
BasenameAt(path, k) == IF k = 0 THEN path ELSE Basename(SubSeq(path, k + 1, Len(path)))
Basename(path) == BasenameAt(path, FindFrom(path, <<"/">>, 1))

NotSlash(c) == c \notin {"/", "\\"}

\* NOTION_ID_PATTERN.search(name): ([^/\\]+?)[ _]([a-f0-9]{32})(?:\.[^/\\]*)?$
\* matches with group 1 = name[i..j-1] and the separator at j
NotionIdMatch(name, i, j) ==
    /\ \A k \in i..(j - 1) : NotSlash(name[k])
    /\ name[j] \in {" ", "_"}
    /\ j + 32 <= Len(name)
    /\ \A k \in (j + 1)..(j + 32) : IsHex(name[k])
    /\ \/ j + 32 = Len(name)
       \/ /\ name[j + 33] = "."
          /\ \A k \in (j + 34)..Len(name) : NotSlash(name[k])

\* NotionHelper.extract_notion_id: the id, None when the pattern does not
\* match; i is the leftmost start of a match and j its first separator
IdAfter(name, j) == IF j = 0 THEN None ELSE SubSeq(name, j + 1, j + 32)
IdFrom(name, i) ==
    IF i = 0 THEN None
    ELSE IdAfter(name, MinOr0({j \in (i + 1)..Len(name) : NotionIdMatch(name, i, j)}))

extract_notion_id(name) ==
    IdFrom(name, MinOr0({i \in 1..Len(name) : \E j \in (i + 1)..Len(name) : NotionIdMatch(name, i, j)}))

\* f"<!-- Notion ID: {notion_id} -->\n\n"
NotionIdComment(id) ==
    <<"<", "!", "-", "-", " ", "N", "o", "t", "i", "o", "n", " ", "I", "D", ":", " ">>
    \o id \o <<" ", "-", "-", ">", NL, NL>>

\* NotionHelper.preprocess_content with include_id_comments on
WithIdComment(content, id) == IF id # None THEN NotionIdComment(id) \o content ELSE content
NotionPreprocess(content, path) ==
    IF content = <<>> THEN content
    ELSE WithIdComment(content,
                       IF path # None /\ path # <<>> THEN extract_notion_id(Basename(path)) ELSE None)

\* NOTION_PROPERTIES_PATTERN:
\*   ^(?:Property|Properties):\s*\n(?:(?:[^\n]+: [^\n]+\n)+)  (MULTILINE)
\* [^\n]+: [^\n]+\n at q: the index after the line, 0 when the line does not match
PropertyLineEnd(s, q) ==
    IF /\ LineEnd(s, q) <= Len(s)
       /\ \E m \in (q + 1)..(LineEnd(s, q) - 3) : IsAt(s, m, <<":", " ">>)
    THEN LineEnd(s, q) + 1
    ELSE 0

\* (?:...)+ at q, where one line matches: the index after the last of the
\* lines that match one after another
RECURSIVE PropertyLinesEnd(_, _)
PropertyLinesEnd(s, q) ==
    IF PropertyLineEnd(s, q) = 0 THEN q ELSE PropertyLinesEnd(s, PropertyLineEnd(s, q))

\* :\s*\n and the lines, at c: \s* gives back characters until a newline ends
\* it and a property line follows; qs are the places where that is so
PropertiesBody(s, qs) == IF qs = {} THEN 0 ELSE PropertyLinesEnd(s, Max(qs))
PropertiesAfterColon(s, c) ==
    IF ~IsAt(s, c, <<":">>) THEN 0
    ELSE PropertiesBody(s, {q \in (c + 2)..SkipWs(s, c + 1) : s[q - 1] = NL /\ PropertyLineEnd(s, q) > 0})

\* the index after the match at p, 0 when there is none
PropertiesMatchEnd(s, p) ==
    IF IsAt(s, p, <<"P", "r", "o", "p", "e", "r", "t", "y">>) /\ PropertiesAfterColon(s, p + 8) > 0
    THEN PropertiesAfterColon(s, p + 8)
    ELSE IF IsAt(s, p, <<"P", "r", "o", "p", "e", "r", "t", "i", "e", "s">>) THEN PropertiesAfterColon(s, p + 10)
    ELSE 0

\* NOTION_PROPERTIES_PATTERN.search from p on: the start of the first match, 0 when there is none
PropertiesSearch(s, p) ==
    MinOr0({k \in p..Len(s) : (k = 1 \/ s[k - 1] = NL) /\ PropertiesMatchEnd(s, k) > 0})

\* NOTION_PROPERTIES_PATTERN.sub(repl, s) from p on; k is the start of the
\* next match.  repl has no backslash: it is inserted as it is
RECURSIVE PropertiesSubFrom(_, _, _)
PropertiesSubAt(s, p, k, repl) ==
    IF k = 0 THEN SubSeq(s, p, Len(s))
    ELSE SubSeq(s, p, k - 1) \o repl \o PropertiesSubFrom(s, PropertiesMatchEnd(s, k), repl)

PropertiesSubFrom(s, p, repl) == PropertiesSubAt(s, p, PropertiesSearch(s, p), repl)

NOTION_PROPERTY_TO_FRONTMATTER ==
    << [name |-> <<"T", "i", "t", "l", "e">>, fm |-> <<"t", "i", "t", "l", "e">>],
       [name |-> <<"N", "a", "m", "e">>, fm |-> <<"t", "i", "t", "l", "e">>],
       [name |-> <<"T", "a", "g", "s">>, fm |-> <<"t", "a", "g", "s">>],
       [name |-> <<"C", "a", "t", "e", "g", "o", "r", "y">>, fm |-> <<"c", "a", "t", "e", "g", "o", "r", "y">>],
       [name |-> <<"C", "a", "t", "e", "g", "o", "r", "i", "e", "s">>, fm |-> <<"c", "a", "t", "e", "g", "o", "r", "i", "e", "s">>],
       [name |-> <<"A", "u", "t", "h", "o", "r">>, fm |-> <<"a", "u", "t", "h", "o", "r">>],
       [name |-> <<"A", "u", "t", "h", "o", "r", "s">>, fm |-> <<"a", "u", "t", "h", "o", "r", "s">>],
       [name |-> <<"D", "a", "t", "e">>, fm |-> <<"d", "a", "t", "e">>],
       [name |-> <<"P", "u", "b", "l", "i", "s", "h", "e", "d">>, fm |-> <<"d", "a", "t", "e">>],
       [name |-> <<"S", "t", "a", "t", "u", "s">>, fm |-> <<"s", "t", "a", "t", "u", "s">>],
       [name |-> <<"D", "e", "s", "c", "r", "i", "p", "t", "i", "o", "n">>, fm |-> <<"d", "e", "s", "c", "r", "i", "p", "t", "i", "o", "n">>],
       [name |-> <<"S", "u", "m", "m", "a", "r", "y">>, fm |-> <<"s", "u", "m", "m", "a", "r", "y">>] >>

\* a wrong variant of FrontmatterName that does not look the name up
FrontmatterNameLowered(n) == Lower(n)

\* NOTION_PROPERTY_TO_FRONTMATTER.get(prop_name, prop_name.lower())
FrontmatterName(n) ==
    IF \E i \in DOMAIN NOTION_PROPERTY_TO_FRONTMATTER : NOTION_PROPERTY_TO_FRONTMATTER[i].name = n
    THEN NOTION_PROPERTY_TO_FRONTMATTER[CHOOSE i \in DOMAIN NOTION_PROPERTY_TO_FRONTMATTER :
                                           NOTION_PROPERTY_TO_FRONTMATTER[i].name = n].fm
    ELSE Lower(n)

\* s.split(sep)
RECURSIVE SplitOn(_, _)
SplitOnAt(s, sep, k) ==
    IF k = 0 THEN <<s>>
    ELSE <<SubSeq(s, 1, k - 1)>> \o SplitOn(SubSeq(s, k + Len(sep), Len(s)), sep)

SplitOn(s, sep) == SplitOnAt(s, sep, FindFrom(s, sep, 1))

\* the frontmatter lines of a property: a value in brackets gives the name
\* and one '  - ' line for each item between commas, another value one line
ListLines(fm_name, values) ==
    <<fm_name \o <<":">>>> \o [i \in 1..Len(values) |-> <<" ", " ", "-", " ">> \o Strip(values[i])]

YamlLines(fm_name, prop_value) ==
    IF prop_value # <<>> /\ Head(prop_value) = "[" /\ prop_value[Len(prop_value)] = "]"
    THEN ListLines(fm_name, SplitOn(SubSeq(prop_value, 2, Len(prop_value) - 1), <<",">>))
    ELSE <<fm_name \o <<":", " ">> \o prop_value>>

\* prop_name, prop_value = line.split(': ', 1), both stripped; k is where the first ': ' is
YamlOfLine(line, k) ==
    YamlLines(FrontmatterName(Strip(SubSeq(line, 1, k - 1))), Strip(SubSeq(line, k + 2, Len(line))))

\* ': ' in line and not line.startswith('Properties:')
IsPropertyLine(line) ==
    Contains(line, <<":", " ">>) /\ ~IsAt(line, 1, <<"P", "r", "o", "p", "e", "r", "t", "i", "e", "s", ":">>)

property_lines(properties_block) == SelectSeq(SplitLines(Strip(properties_block)), IsPropertyLine)

\* NotionHelper._convert_properties_to_frontmatter: the frontmatter, None when
\* the block has no property line
FrontmatterOfLines(lines) ==
    IF lines = <<>> THEN None
    ELSE JoinLines(<<<<"-", "-", "-">>>>
                   \o ConcatAll([i \in 1..Len(lines) |-> YamlOfLine(lines[i], FindFrom(lines[i], <<":", " ">>, 1))])
                   \o <<<<"-", "-", "-">>>>)

convert_properties_to_frontmatter(properties_block) == FrontmatterOfLines(property_lines(properties_block))

\* the frontmatter of the first properties block of a text, None when the
\* text has no block (k is the start of the block, 0: none)
FrontmatterAt(s, k) ==
    IF k = 0 THEN None
    ELSE convert_properties_to_frontmatter(SubSeq(s, k, PropertiesMatchEnd(s, k) - 1))

NotionFrontmatter(s) == FrontmatterAt(s, PropertiesSearch(s, 1))

\* result = NOTION_PROPERTIES_PATTERN.sub(frontmatter + "\n\n", result)
PropertiesConverted(s, frontmatter) ==
    IF frontmatter = None THEN s ELSE PropertiesSubFrom(s, 1, frontmatter \o <<NL, NL>>)

\* NotionHelper.optimize_content with the default configuration: the text.
\* The texts of this model have no line that starts with '---', Created or
\* Last Edited, no 'https://www.notion.so/', no '[[' and no '](#cite-', which
\* the divider, timestamp, URL, comment and citation patterns need; callouts
\* and toggles are preserved; the three pattern names looked up in globals()
\* are not defined in notion_helper.
NotionOptimize(content) == PropertiesConverted(content, NotionFrontmatter(content))

\* the stats of NotionHelper.optimize_content: stats["Notion Properties"] = 1
\* when a block was converted
NotionOptimizeStats(content) ==
    IF NotionFrontmatter(content) = None THEN NoStats
    ELSE [NoStats EXCEPT !.keys = {"Notion Properties"}, !.total = 1]

\* NotionHelper.postprocess_content
NotionPostprocess(content) == IF content = <<>> THEN content ELSE CollapseBlankLines(Strip(content))


(***************************************************************************)
(* The stages of a helper instance, by helper type                          *)
(***************************************************************************)
\* what preprocess_content hands to optimize_content: the text, and for the
\* Markdown and Docs helpers the fenced blocks found in it
PlainData(text) == [content |-> text, blocks |-> <<>>, is_mdc |-> FALSE, is_cursorrules |-> FALSE]

\* helper.preprocess_content(content, file_path); the paths of the model do not end in .eml
PreprocessOf(h, text, path) ==
    CASE h = "markdown" -> MdPreprocess(text, path)
      [] h = "docs"     -> DocsPreprocess(text, path)
      [] h = "notion"   -> PlainData(NotionPreprocess(text, path))
      [] h = "email"    -> PlainData(text)
      [] h = "code"     -> PlainData(text)


MdStatsKeys == {"helper_name", "helper_specific_data", "files_processed",
                "optimized_content", "rule_trigger_stats"}

\* helper.optimize_content(preprocessed, file_path): the text and the stats mapping
OptimizeOf(h, d, importable) ==
    CASE h = "markdown" -> MdOptimize(d, importable)
      [] h = "docs"     -> [raised |-> FALSE, text |-> DocsOptimize(d), stats |-> NoStats]
      [] h = "notion"   -> [raised |-> FALSE, text |-> NotionOptimize(d.content),
                            stats |-> NotionOptimizeStats(d.content)]
      [] h = "email"    -> [raised |-> FALSE, text |-> EmailOptimize(d.content),
                            stats |-> EmailOptimizeStats(d.content)]
      [] h = "code"     -> [raised |-> FALSE, text |-> CodeOptimize(d.content), stats |-> NoStats]

\* helper.postprocess_content(optimized, file_path)
PostprocessOf(h, text, ppdata) ==
    CASE h = "markdown" -> MdPostprocess(text, ppdata)
      [] h = "docs"     -> DocsPostprocess(text)
      [] h = "notion"   -> NotionPostprocess(text)
      [] h = "email"    -> EmailPostprocess(text)
      [] h = "code"     -> CodePostprocess(text)

(***************************************************************************)
(* State                                                                    *)
(***************************************************************************)
VARIABLES
    helper,             \* the type of the helper instance whose process_file is called
    rulesImportable,    \* whether `import optimization_rules` succeeds in this process
    pc,                 \* position in process_file: idle, preprocess, optimize, postprocess, finish, done
    stage,              \* the file's state: NONE, RAW, PREPROCESSED, OPTIMIZED, POSTPROCESSED
    file_path,          \* argument of process_file
    content,            \* the file's content once it is available, None before
    data,               \* local `preprocessed`
    optimized,          \* local `optimized`
    opt_stats,          \* local `opt_stats`
    final,              \* local `final`
    result,             \* what the call gave its caller: a (text, stats) pair or an exception
    hstats,             \* self.stats of the helper instance
    preprocessed_data,  \* MarkdownHelper._preprocessed_data
    ran,                \* how many times each stage method has run for this file
    failed_stage,       \* the stage that raised for this file, none when none did
    default_mode,       \* UnifiedOptimizer.default_mode
    config,             \* UnifiedOptimizer.config: the names of the keyword arguments given
    helpers,            \* UnifiedOptimizer.helpers: the content types that have a cached entry
    ustats,             \* UnifiedOptimizer.stats
    force_mode,         \* argument of optimize_file
    content_type,       \* local `content_type` of optimize_file
    confidence,         \* local `confidence`, in hundredths
    scores,             \* local `scores` of detect_content_type, in hundredths
    helper_result,      \* what helper.process_file gave optimize_file
    directory,          \* the files os.walk lists under directory_path, in its order
    extensions,         \* argument of optimize_directory (the empty set: None)
    walk_pos,           \* the index in directory of the file the walk is at, 0 outside a walk
    optimized_files,    \* local `optimized_files`: pairs <<rel_path, optimized>>
    outcomes,           \* what optimize_file gave for each file visited so far
    id_map,             \* NotionHelper.id_map: pairs <<cleaned path, id>>
    cleaned_paths,      \* NotionHelper.cleaned_paths: pairs <<path, cleaned path>>
    detect_call,        \* the last call of a helper's detect_content_type: the content
                        \* passed, what is at file_path, what guess_lexer does
    helper_specific_data,   \* NotionHelper.stats["helper_specific_data"]: the counters
                        \* notion_ids_count and cleaned_files
    mode,               \* argument and local `mode` of process_with_content_helpers
    processed_content_sections, \* local `processed_content_sections`
    files_processed,    \* local `files_processed`
    files_skipped,      \* local `files_skipped`
    output_file,        \* the file at output_filename: whether it was written, its sections
    report_stats        \* the report_stats handed to generate_report

hvars == <<helper, rulesImportable, pc, stage, file_path, content, data, optimized,
           opt_stats, final, result, hstats, preprocessed_data, ran, failed_stage>>

Stages == <<"preprocess", "optimize", "postprocess">>

NoResult == [kind |-> "none", text |-> <<>>, stats |-> NoStats]
Returned(text, stats) == [kind |-> "returned", text |-> text, stats |-> stats]
Raised(exc) == [kind |-> "raised", text |-> <<>>, stats |-> ErrorStats(exc)]

\* repr() of a str without quote characters: newlines escaped, in single quotes
Repr(t) == <<"'">> \o ConcatAll([i \in 1..Len(t) |-> IF t[i] = NL THEN <<"\\", "n">> ELSE <<t[i]>>]) \o <<"'">>

\* str(e) of the exception open(path) raises: FileNotFoundError for a missing
\* file, TypeError for None, ValueError for a path with a null character
NoSuchFile(path) == <<"[", "E", "r", "r", "n", "o", " ", "2", "]", " ", "N", "o", " ", "s", "u", "c", "h", " ", "f", "i", "l", "e", " ", "o", "r", " ", "d", "i", "r", "e", "c", "t", "o", "r", "y", ":", " ">> \o Repr(path)
NotAPath == <<"e", "x", "p", "e", "c", "t", "e", "d", " ", "s", "t", "r", ",", " ", "b", "y", "t", "e", "s", " ", "o", "r", " ", "o", "s", ".", "P", "a", "t", "h", "L", "i", "k", "e", " ", "o", "b", "j", "e", "c", "t", ",", " ", "n", "o", "t", " ", "N", "o", "n", "e", "T", "y", "p", "e">>
EmbeddedNull == <<"e", "m", "b", "e", "d", "d", "e", "d", " ", "n", "u", "l", "l", " ", "b", "y", "t", "e">>

OpenErrorText(path) == IF path = None THEN NotAPath
                       ELSE IF Contains(path, <<NUL>>) THEN EmbeddedNull
                       ELSE NoSuchFile(path)

\* f"Error reading file: {e}" of MarkdownHelper.process_file
ErrorReadingFile == <<"E", "r", "r", "o", "r", " ", "r", "e", "a", "d", "i", "n", "g", " ", "f", "i", "l", "e", ":", " ">>

\* None where a content type name is expected
NoMode == "None"

dvars == <<default_mode, config, helpers, ustats, force_mode, content_type, confidence, scores,
           helper_result>>

\* the variables of process_with_content_helpers
rvars == <<mode, processed_content_sections, files_processed, files_skipped, output_file,
           report_stats>>

xvars == <<directory, extensions, walk_pos, optimized_files, outcomes, id_map, cleaned_paths,
           detect_call, helper_specific_data, rvars>>

vars == <<hvars, dvars, xvars>>

\* the state of the variables of optimize_directory and of NotionHelper after construction
InitExtra ==
    /\ directory = <<>>
    /\ extensions = {}
    /\ walk_pos = 0
    /\ optimized_files = {}
    /\ outcomes = <<>>
    /\ id_map = {}
    /\ cleaned_paths = {}
    /\ detect_call = [given |-> None, disk |-> None, lexer |-> "unavailable"]
    /\ helper_specific_data = [notion_ids_count |-> 0, cleaned_files |-> 0]
    /\ mode = NoMode
    /\ processed_content_sections = <<>>
    /\ files_processed = 0
    /\ files_skipped = 0
    /\ output_file = [written |-> FALSE, text |-> <<>>]
    /\ report_stats = [written |-> FALSE, files_processed |-> 0, files_skipped |-> 0]

\* UnifiedOptimizer.stats after __init__; size_increases and
\* reverted_optimizations are read with a default of 0, errors is the length of the list
NoUStats == [files_processed |-> 0, auto_detected |-> 0, detection_failures |-> 0,
             size_increases |-> 0, reverted_optimizations |-> 0, errors |-> 0,
             detected_types |-> [t \in Range(HelperTypes) |-> 0]]

NoScores == [t \in Range(HelperTypes) |-> 0]

\* a helper instance is constructed and its process_file is about to be called
InitHelper ==
    /\ helper \in Range(HelperTypes)
    /\ rulesImportable \in (IF helper = "markdown" THEN BOOLEAN ELSE {TRUE})
    /\ pc = "idle"
    /\ stage = "NONE"
    /\ file_path = None
    /\ content = None
    /\ data = NoData
    /\ optimized = None
    /\ opt_stats = NoStats
    /\ final = None
    /\ result = NoResult
    /\ hstats = [files_processed |-> 0, optimizations_applied |-> 0]
    /\ preprocessed_data = NoData
    /\ ran = [s \in Range(Stages) |-> 0]
    /\ failed_stage = "none"
    /\ default_mode = NoMode
    /\ config = {}
    /\ helpers = {}
    /\ ustats = NoUStats
    /\ force_mode = NoMode
    /\ content_type = NoMode
    /\ confidence = 0
    /\ scores = NoScores
    /\ helper_result = NoResult
    /\ InitExtra


(***************************************************************************)
(* process_file of a helper instance                                        *)
(***************************************************************************)
\* the file at file_path as open() finds it: its text, or Missing
Missing == <<"Missing">>

\* what the preprocess stage left for postprocess: the Markdown helper reads
\* self._preprocessed_data, the others take no data
PostData == IF helper = "markdown" THEN preprocessed_data ELSE data

\* a wrong variant of RevertStats that records the final length as the increase
RevertStatsFinalLength(stats, final_length, original_length) ==
    [stats EXCEPT !.keys = @ \cup {"size_increased", "reverted_to_original"},
                  !.size_increased = final_length,
                  !.reverted_to_original = TRUE]

\* opt_stats["size_increased"] = final_length - original_length;
\* opt_stats["reverted_to_original"] = True
RevertStats(stats, final_length, original_length) ==
    [stats EXCEPT !.keys = @ \cup {"size_increased", "reverted_to_original"},
                  !.size_increased = final_length - original_length,
                  !.reverted_to_original = TRUE]

\* a wrong variant of AfterStage that starts over after postprocess
AfterStageAgain(s) == CASE s = "preprocess"  -> "optimize"
                        [] s = "optimize"    -> "postprocess"
                        [] s = "postprocess" -> "preprocess"

\* the position after a stage that returned
AfterStage(s) == CASE s = "preprocess"  -> "optimize"
                   [] s = "optimize"    -> "postprocess"
                   [] s = "postprocess" -> "finish"

\* the file's state once a stage has returned
StageReached(s) == CASE s = "preprocess"  -> "PREPROCESSED"
                     [] s = "optimize"    -> "OPTIMIZED"
                     [] s = "postprocess" -> "POSTPROCESSED"

\* a stage raised: ContentHelperBase.process_file catches it and returns the
\* empty string with an error entry; MarkdownHelper.process_file has no handler
StageRaised(s) ==
    /\ failed_stage' = s
    /\ ran' = [ran EXCEPT ![s] = @ + 1]
    /\ pc' = "done"
    /\ result' = IF helper = "markdown" THEN Raised("stage exception")
                 ELSE Returned(<<>>, ErrorStats("Processing error"))
    /\ UNCHANGED <<helper, rulesImportable, stage, file_path, content, data, optimized,
                   opt_stats, final, hstats, preprocessed_data>>

\* process_file(path, given) up to the first stage: the None check, the read
\* and the empty check of ContentHelperBase; the read of MarkdownHelper
ProcessFile(path, given, disk) ==
    /\ helper \in Range(HelperTypes)
    /\ pc = "idle"
    /\ file_path' = path
    /\ LET loaded == IF given # None THEN given
                     ELSE IF path = None THEN Missing ELSE disk
       IN  IF helper # "markdown" /\ path = None
           THEN /\ result' = Returned(<<>>, ErrorStats("Invalid file path (None)"))
                /\ pc' = "done"
                /\ UNCHANGED <<content, stage>>
           ELSE IF loaded = Missing
           THEN /\ result' = IF helper = "markdown"
                             THEN Returned(ErrorReadingFile \o OpenErrorText(path), ErrorStats("read error"))
                             ELSE Returned(<<>>, ErrorStats("File read error"))
                /\ pc' = "done"
                /\ UNCHANGED <<content, stage>>
           ELSE IF helper # "markdown" /\ loaded = <<>>
           THEN /\ result' = Returned(<<>>, [NoStats EXCEPT !.keys = {"empty_file"}])
                /\ content' = loaded
                /\ pc' = "done"
                /\ UNCHANGED stage
           ELSE /\ content' = loaded
                /\ stage' = "RAW"
                /\ pc' = "preprocess"
                /\ UNCHANGED result
    /\ UNCHANGED <<helper, rulesImportable, data, optimized, opt_stats, final, hstats,
                   preprocessed_data, ran, failed_stage>>
    /\ UNCHANGED <<dvars, xvars>>

\* preprocessed = self.preprocess_content(content, file_path); raises: the
\* stage method raises, as the three of them do on a content that is not a
\* str (the patterns are str patterns)
Preprocess(raises) ==
    /\ pc = "preprocess"
    /\ UNCHANGED <<dvars, xvars>>
    /\ IF raises THEN StageRaised("preprocess")
       ELSE /\ data' = PreprocessOf(helper, content, file_path)
            /\ preprocessed_data' = IF helper = "markdown" THEN data' ELSE preprocessed_data
            /\ ran' = [ran EXCEPT !["preprocess"] = @ + 1]
            /\ stage' = StageReached("preprocess")
            /\ pc' = AfterStage("preprocess")
            /\ UNCHANGED <<helper, rulesImportable, file_path, content, optimized, opt_stats,
                           final, result, hstats, failed_stage>>

\* optimized, opt_stats = self.optimize_content(preprocessed, file_path)
OptimizeGave(o) ==
    IF o.raised THEN StageRaised("optimize")
    ELSE /\ optimized' = o.text
         /\ opt_stats' = o.stats
         /\ ran' = [ran EXCEPT !["optimize"] = @ + 1]
         /\ stage' = StageReached("optimize")
         /\ pc' = AfterStage("optimize")
         /\ UNCHANGED <<helper, rulesImportable, file_path, content, data, final,
                        result, hstats, preprocessed_data, failed_stage>>

Optimize(raises) ==
    /\ pc = "optimize"
    /\ UNCHANGED <<dvars, xvars>>
    /\ IF raises THEN StageRaised("optimize")
       ELSE OptimizeGave(OptimizeOf(helper, data, rulesImportable))

\* final = self.postprocess_content(optimized, file_path); the Markdown
\* helper's postprocess also counts the file
Postprocess(raises) ==
    /\ pc = "postprocess"
    /\ UNCHANGED <<dvars, xvars>>
    /\ IF raises THEN StageRaised("postprocess")
       ELSE /\ final' = PostprocessOf(helper, optimized, PostData)
            /\ hstats' = IF helper = "markdown"
                         THEN [hstats EXCEPT !.files_processed = @ + 1] ELSE hstats
            /\ ran' = [ran EXCEPT !["postprocess"] = @ + 1]
            /\ stage' = StageReached("postprocess")
            /\ pc' = AfterStage("postprocess")
            /\ UNCHANGED <<helper, rulesImportable, file_path, content, data, optimized,
                           opt_stats, result, preprocessed_data, failed_stage>>

\* the rest of process_file: ContentHelperBase updates its statistics, puts
\* the empty string with an error entry in place of a final text of None, and
\* returns the original content when the final text is longer;
\* MarkdownHelper returns the final text with the combined stats
Finish ==
    /\ pc = "finish"
    /\ UNCHANGED <<dvars, xvars>>
    /\ pc' = "done"
    /\ IF helper = "markdown"
       THEN /\ result' = Returned(final, [opt_stats EXCEPT !.keys = MdStatsKeys])
            /\ UNCHANGED hstats
       ELSE /\ hstats' = [hstats EXCEPT !.files_processed = @ + 1,
                                        !.optimizations_applied = @ + opt_stats.total]
            /\ result' = IF final = None
                         THEN Returned(<<>>, [opt_stats EXCEPT
                                                !.keys = @ \cup {"error"},
                                                !.error = "Postprocessing returned None content"])
                         ELSE IF Len(final) > Len(content)
                         THEN Returned(content, RevertStats(opt_stats, Len(final), Len(content)))
                         ELSE Returned(final, opt_stats)
    /\ UNCHANGED <<helper, rulesImportable, stage, file_path, content, data, optimized,
                   opt_stats, final, preprocessed_data, ran, failed_stage>>


(***************************************************************************)
(* content_helpers/__init__.py: the registry                                *)
(***************************************************************************)
\* the stages of the DocsHelper, CodeHelper, NotionHelper and EmailHelper
\* classes that __init__.py defines: each hands the content on unchanged
RegistryPipeline(text) == text

\* get_content_helper(name, **config): the class registered for the name.
\* The function takes no keyword arguments and knows five names.
get_content_helper(name, cfg) ==
    IF cfg # {} THEN [raised |-> TRUE, class |-> NoMode]
    ELSE IF name \notin Range(HelperTypes) THEN [raised |-> TRUE, class |-> NoMode]
    ELSE [raised |-> FALSE, class |-> name]

\* UnifiedOptimizer._get_helper: the cached entry, or the registry's answer
GetHelper(cached, name, cfg) ==
    IF name \in cached THEN [raised |-> FALSE, class |-> name]
    ELSE get_content_helper(name, cfg)

\* helper.get_stats() where helper is the class itself: no self is bound and
\* the call raises TypeError
ClassGetStats(class) == Raised("TypeError")

\* UnifiedOptimizer.get_stats: self.stats with helper.get_stats() of every
\* entry of self.helpers under "helper_stats"
get_stats(cached) ==
    IF \E t \in cached : ClassGetStats(t).kind = "raised" THEN Raised("TypeError")
    ELSE Returned(None, [NoStats EXCEPT !.keys = {"helper_stats"}])

\* helper.detect_content_type(file_path, content) where helper is the class
\* itself: the call binds self = file_path, file_path = content, content = None.
\* The four classes of __init__.py answer 0.5 for a non-empty file_path;
\* MarkdownHelper answers by the extension of file_path, else 0.1.
ClassDetect(class, path, text) ==
    IF text = None \/ text = <<>> THEN 0
    ELSE IF class # "markdown" THEN 50
    ELSE LET low == Lower(text)
         IN  IF EndsWith(low, <<".", "m", "d">>) THEN 90
             ELSE IF EndsWith(low, <<".", "m", "d", "c">>) THEN 95
             ELSE IF EndsWith(low, <<".", "c", "u", "r", "s", "o", "r", "r", "u", "l", "e", "s">>) THEN 95
             ELSE IF EndsWith(low, <<".", "m", "a", "r", "k", "d", "o", "w", "n">>) THEN 90
             ELSE 10

\* helper.process_file(file_path, content) where helper is the class itself:
\* the call binds self = file_path, file_path = content, content = None, and
\* the method opens the content as a path.  probe says what is found there.
ClassProcessFile(class, path, text, probe) ==
    LET openFails == probe = "missing" \/ Contains(text, <<NUL>>)
    IN  IF class = "markdown"
        THEN IF openFails
             THEN Returned(ErrorReadingFile \o OpenErrorText(text), ErrorStats("read error"))
             ELSE Raised("AttributeError")
        ELSE IF openFails THEN Returned(<<>>, ErrorStats("File read error"))
             ELSE IF probe = "empty" THEN Returned(<<>>, [NoStats EXCEPT !.keys = {"empty_file"}])
             ELSE Returned(<<>>, ErrorStats("Processing error"))

\* process_file(file_path, content) of an instance of the registered class,
\* for a non-empty content
MdPipeline(d) == MdPostprocess(MdOptimize(d, TRUE).text, d)

InstanceProcessFile(class, path, text) ==
    IF class = "markdown" THEN MdPipeline(MdPreprocess(text, path)) ELSE RegistryPipeline(text)

(***************************************************************************)
(* unified_optimizer.py                                                     *)
(***************************************************************************)
\* confidence < 0.3, in hundredths
LowConfidence == 30

\* scores of detect_content_type: 0.0 for a helper whose lookup or call raises
DetectScores(cached, cfg, path, text) ==
    [t \in Range(HelperTypes) |->
        IF GetHelper(cached, t, cfg).raised THEN 0 ELSE ClassDetect(t, path, text)]

\* a wrong variant of BestType that takes the last key with the largest score
BestTypeLast(sc) ==
    HelperTypes[Max({k \in 1..Len(HelperTypes) :
                       \A j \in 1..Len(HelperTypes) : sc[HelperTypes[j]] <= sc[HelperTypes[k]]})]

\* max(scores, key=scores.get): the first key, in insertion order, with the largest score
BestType(sc) ==
    HelperTypes[Min({k \in 1..Len(HelperTypes) :
                       \A j \in 1..Len(HelperTypes) : sc[HelperTypes[j]] <= sc[HelperTypes[k]]})]

\* the (content_type, confidence) pair detect_content_type returns for the scores
Fallback(sc, best, default) ==
    IF sc[best] < LowConfidence THEN <<default, sc[best]>> ELSE <<best, sc[best]>>

DetectResult(sc, default) == Fallback(sc, BestType(sc), default)

\* a wrong variant of ExceedsTolerance with a tolerance of 10%
ExceedsTenPercent(optimized_length, original_length) ==
    10 * optimized_length > 11 * original_length

\* optimized_length > original_length * 1.05
ExceedsTolerance(optimized_length, original_length) ==
    20 * optimized_length > 21 * original_length

\* contents handed to the dispatcher: empty, plain, named like Markdown files,
\* and contents with a null character, of lengths around the length of the
\* message open() gives for them
NulContents == { <<NUL>> \o Rep("a", n - 1) : n \in (MaxNulLen - 3)..MaxNulLen }
DContents == { <<>>, <<"a">>, <<"a", NL>>, <<"a", ".", "m", "d">>, <<"a", ".", "m", "d", "c">> }
             \cup NulContents

DefaultModes == {"docs", "markdown"}
ForceModes == {NoMode} \cup Range(HelperTypes) \cup {"pdf"}
Configs == SUBSET {"preserve_toc"}
Directory == <<"Directory">>
Unreadable == <<"Unreadable">>

\* a UnifiedOptimizer is constructed
InitDispatcher ==
    /\ helper = NoMode
    /\ rulesImportable = TRUE
    /\ pc = "idle"
    /\ stage = "NONE"
    /\ file_path = None
    /\ content = None
    /\ data = NoData
    /\ optimized = None
    /\ opt_stats = NoStats
    /\ final = None
    /\ result = NoResult
    /\ hstats = [files_processed |-> 0, optimizations_applied |-> 0]
    /\ preprocessed_data = NoData
    /\ ran = [s \in Range(Stages) |-> 0]
    /\ failed_stage = "none"
    /\ default_mode \in DefaultModes
    /\ config \in Configs
    /\ helpers = {}
    /\ ustats = NoUStats
    /\ force_mode = NoMode
    /\ content_type = NoMode
    /\ confidence = 0
    /\ scores = NoScores
    /\ helper_result = NoResult
    /\ InitExtra

Init == InitHelper \/ InitDispatcher


hvars_but_pc_result == <<helper, rulesImportable, stage, file_path, content, data, optimized,
                         opt_stats, final, hstats, preprocessed_data, ran, failed_stage>>

\* what is at file_path when the content is not passed in: nothing, a
\* directory, a file that cannot be read, or a file with a content
DiskStates(given) == IF given = None THEN {Missing, Directory, Unreadable} \cup DContents
                     ELSE {Missing, <<>>}

\* self.stats["errors"].append(...)
WithError(st) == [st EXCEPT !.errors = @ + 1]

\* the call returns to its caller
Return(r) ==
    /\ result' = r
    /\ pc' = "done"

\* optimize_file(path, given, force_mode=fm), lines 97-116: the path check and the read
ReadFile(path, given, disk, fm) ==
    /\ file_path' = path
    /\ force_mode' = fm
    /\ IF path = None \/ disk = Missing
       THEN /\ ustats' = WithError(ustats)
            /\ Return(Returned(<<>>, ErrorStats("Invalid file path")))
            /\ UNCHANGED content
       ELSE IF given = None /\ disk = Unreadable
       THEN /\ ustats' = WithError(ustats)
            /\ Return([kind |-> "returned", text |-> None, stats |-> ErrorStats("read error")])
            /\ UNCHANGED content
       ELSE /\ content' = IF given # None THEN given
                          ELSE IF disk = Directory THEN None ELSE disk
            /\ pc' = "select"
            /\ UNCHANGED <<ustats, result>>
    /\ UNCHANGED <<helper, rulesImportable, stage, data, optimized, opt_stats, final,
                   hstats, preprocessed_data, ran, failed_stage>>
    /\ UNCHANGED <<default_mode, config, helpers, content_type, confidence, scores, helper_result>>

\* optimize_file(path, given, force_mode=fm) called on the dispatcher
OptimizeFile(path, given, disk, fm) ==
    /\ UNCHANGED xvars
    /\ default_mode # NoMode
    /\ pc = "idle"
    /\ ReadFile(path, given, disk, fm)

\* the helpers detect_content_type has looked up and cached, and the errors it has appended
HelpersAfterDetect == helpers \cup {t \in Range(HelperTypes) : ~GetHelper(helpers, t, config).raised}
ErrorsInDetect == Cardinality({t \in Range(HelperTypes) : GetHelper(helpers, t, config).raised})

\* detect_content_type, lines 65-83: the scores are sc and the best match is chosen
Chosen(r) ==
    /\ content_type' = r[1]
    /\ confidence' = r[2]

Detected(sc) ==
    /\ scores' = sc
    /\ Chosen(DetectResult(sc, default_mode))
    /\ helpers' = HelpersAfterDetect

\* optimize_file, lines 118-131: the forced type or detect_content_type, then the empty check
SelectContentType ==
    /\ UNCHANGED xvars
    /\ pc = "select"
    /\ IF force_mode # NoMode
       THEN /\ content_type' = force_mode
            /\ ustats' = IF content = None \/ content = <<>>
                         THEN [ustats EXCEPT !.files_processed = @ + 1] ELSE ustats
            /\ UNCHANGED <<helpers, confidence, scores>>
       ELSE /\ Detected(DetectScores(helpers, config, file_path, content))
            /\ ustats' = [ustats EXCEPT
                            !.errors = @ + ErrorsInDetect,
                            !.detected_types[content_type'] = @ + 1,
                            !.auto_detected = @ + 1,
                            !.files_processed = IF content = None \/ content = <<>> THEN @ + 1 ELSE @]
    /\ IF content = None \/ content = <<>>
       THEN Return(Returned(<<>>, [NoStats EXCEPT !.keys = {"empty_file"}]))
       ELSE /\ pc' = "process"
            /\ UNCHANGED result
    /\ UNCHANGED hvars_but_pc_result
    /\ UNCHANGED <<default_mode, config, force_mode, helper_result>>

\* optimize_file, lines 133-172: the helper lookup, helper.process_file, the
\* statistics, the 5% check and the exception handler
\* result_stats: the detection entry, the helper's stats, the processing time
ResultStats(st) == [st EXCEPT !.keys = @ \cup {"detection", "processing_time"}]

\* the helper lookup gave h and helper.process_file gave r
HelperGave(h, r, original_length) ==
    /\ helper_result' = r
    /\ helpers' = IF h.raised THEN helpers ELSE helpers \cup {content_type}
    /\ IF r.kind = "raised"
       THEN /\ ustats' = [WithError(ustats) EXCEPT !.detection_failures = @ + 1]
            /\ Return(Returned(content, ErrorStats("Error processing")))
       ELSE /\ ustats' = [ustats EXCEPT
                            !.files_processed = @ + 1,
                            !.size_increases =
                                IF "size_increased" \in r.stats.keys /\ r.stats.reverted_to_original
                                THEN @ + 1 ELSE @,
                            !.reverted_optimizations =
                                IF ExceedsTolerance(Len(r.text), original_length) THEN @ + 1 ELSE @]
            /\ IF ExceedsTolerance(Len(r.text), original_length)
               THEN Return(Returned(content, RevertStats(ResultStats(r.stats), Len(r.text), original_length)))
               ELSE Return(Returned(r.text, ResultStats(r.stats)))

HelperFound(h, probe) ==
    HelperGave(h,
               IF h.raised THEN Raised("lookup") ELSE ClassProcessFile(h.class, file_path, content, probe),
               Len(content))

RunHelper(probe) ==
    /\ UNCHANGED xvars
    /\ pc = "process"
    /\ HelperFound(GetHelper(helpers, content_type, config), probe)
    /\ UNCHANGED hvars_but_pc_result
    /\ UNCHANGED <<default_mode, config, force_mode, content_type, confidence, scores>>

\* detect_content_type(path, given) called on the dispatcher
DetectContentType(path, given, disk) ==
    /\ UNCHANGED xvars
    /\ default_mode # NoMode
    /\ pc = "idle"
    /\ file_path' = path
    /\ IF given = None /\ path = None
       THEN /\ Return(Raised("TypeError"))
            /\ UNCHANGED <<content, ustats, helpers, scores, content_type, confidence>>
       ELSE IF given = None /\ disk = Unreadable
       THEN /\ ustats' = WithError(ustats)
            /\ content_type' = default_mode
            /\ confidence' = 0
            /\ Return(Returned(None, NoStats))
            /\ UNCHANGED <<content, helpers, scores>>
       ELSE /\ content' = IF given # None THEN given
                          ELSE IF disk \in {Missing, Directory} THEN None ELSE disk
            /\ Detected(DetectScores(helpers, config, path, content'))
            /\ ustats' = [ustats EXCEPT !.errors = @ + ErrorsInDetect]
            /\ Return(Returned(None, NoStats))
    /\ UNCHANGED <<helper, rulesImportable, stage, data, optimized, opt_stats, final,
                   hstats, preprocessed_data, ran, failed_stage>>
    /\ UNCHANGED <<default_mode, config, force_mode, helper_result>>

(***************************************************************************)
(* detect_content_type of the helper instances.  A confidence is counted   *)
(* in hundredths: 0.8 is 80.  A pattern search is TRUE when the pattern    *)
(* matches somewhere in the text.                                          *)
(***************************************************************************)
\* the positions where ^ matches under re.MULTILINE and a character follows
LineStarts(s) == {i \in 1..Len(s) : i = 1 \/ s[i - 1] = NL}
\* `.` matches every character of s[a..b]
NoNewline(s, a, b) == \A k \in a..b : s[k] # NL
\* \s* matches s[a..b]
AllSpace(s, a, b) == \A k \in a..b : IsSpace(s[k])
\* one of the words is at position k
WordAt(s, k, words) == \E w \in words : IsAt(s, k, w)
\* the positions after a word of words at position k
AfterWord(s, k, words) == {k + Len(w) : w \in {v \in words : IsAt(s, k, v)}}
\* \s+ matches from p up to a character that is not a space: its position, 0 if \s+ fails
AfterSpaces(s, p) == IF p <= Len(s) /\ IsSpace(s[p]) THEN SkipWs(s, p) ELSE 0
\* \[.*?\]\(.*?\) matches at a
LinkAt(s, a) ==
    /\ s[a] = "["
    /\ \E b \in (a + 1)..(Len(s) - 2) :
         /\ s[b] = "]"
         /\ s[b + 1] = "("
         /\ \E c \in (b + 2)..Len(s) : s[c] = ")" /\ NoNewline(s, a, c)
RECURSIVE DashRunEnd(_, _)
DashRunEnd(s, p) == IF p <= Len(s) /\ s[p] = "-" THEN DashRunEnd(s, p + 1) ELSE p
RECURSIVE DigitRunEnd(_, _)
DigitRunEnd(s, p) == IF p <= Len(s) /\ IsDigit(s[p]) THEN DigitRunEnd(s, p + 1) ELSE p
RECURSIVE WordRunEnd(_, _)
WordRunEnd(s, p) == IF p <= Len(s) /\ IsWord(s[p]) THEN WordRunEnd(s, p + 1) ELSE p
\* \s*\n or \s*$\n matches from p: some newline follows p after spaces only
SpacesThenNewline(s, p) == {q \in p..Len(s) : s[q] = NL /\ AllSpace(s, p, q - 1)}

\* pathlib: Path(p).suffix and Path(p).stem, for a path that does not end in '/'
LastDot(name) == MaxOr0({i \in 1..Len(name) : name[i] = "."})
HasSuffix(name) == LastDot(name) > 1 /\ LastDot(name) < Len(name)
Suffix(path) == IF HasSuffix(Basename(path))
                THEN SubSeq(Basename(path), LastDot(Basename(path)), Len(Basename(path)))
                ELSE <<>>
Stem(path) == IF HasSuffix(Basename(path))
              THEN SubSeq(Basename(path), 1, LastDot(Basename(path)) - 1)
              ELSE Basename(path)

\* what open(file_path).read(4000) gives detect_content_type when no content
\* is passed: the texts of the model are shorter than 4000 characters
ReadFails(given, disk) == given = None /\ disk \in {Missing, Directory, Unreadable}
Sample(given, disk) == IF given # None THEN given ELSE disk

(* email_helper.py *)
EmailHeaderNames == {<<"F", "r", "o", "m">>, <<"T", "o">>, <<"S", "u", "b", "j", "e", "c", "t">>, <<"D", "a", "t", "e">>, <<"C", "c">>, <<"B", "c", "c">>, <<"R", "e", "p", "l", "y", "-", "T", "o">>, <<"S", "e", "n", "d", "e", "r">>, <<"M", "e", "s", "s", "a", "g", "e", "-", "I", "D">>}
\* EMAIL_HEADER_PATTERN matches at line start k
EmailHeaderAt(s, k) ==
    \E p \in AfterWord(s, k, EmailHeaderNames) : IsAt(s, p, <<":">>) /\ p + 1 <= Len(s) /\ IsSpace(s[p + 1])
\* the end of the match at k: .*?$ stops at the end of the line that follows `:\s`
EmailHeaderEnd(s, k) == LineEnd(s, Min(AfterWord(s, k, EmailHeaderNames)) + 2)
\* len(EMAIL_HEADER_PATTERN.findall(content)), scanning from p
RECURSIVE EmailHeadersFrom(_, _)
EmailHeadersAt(s, k) == IF k = 0 THEN 0 ELSE 1 + EmailHeadersFrom(s, EmailHeaderEnd(s, k))
EmailHeadersFrom(s, p) == EmailHeadersAt(s, MinOr0({i \in LineStarts(s) : i >= p /\ EmailHeaderAt(s, i)}))
header_matches(s) == EmailHeadersFrom(s, 1)

EMAIL_QUOTE_PATTERN(s) == \E i \in LineStarts(s) : s[i] = ">"

EMAIL_SIGNATURE_PATTERN(s) ==
    \E i \in LineStarts(s) : IsAt(s, i, <<"-", "-">>) /\ SpacesThenNewline(s, DashRunEnd(s, i)) # {}

EmailForwardedFrom(s, w) ==
    \E p \in AfterWord(s, w, {<<"F", "o", "r", "w", "a", "r", "d", "e", "d">>, <<"O", "r", "i", "g", "i", "n", "a", "l">>}) :
        AfterSpaces(s, p) # 0 /\ WordAt(s, AfterSpaces(s, p), {<<"m", "e", "s", "s", "a", "g", "e">>, <<"M", "e", "s", "s", "a", "g", "e">>})
EMAIL_FORWARDED_PATTERN(s) ==
    \E i \in LineStarts(s) : DashRunEnd(s, i) - i >= 3 /\ EmailForwardedFrom(s, SkipWs(s, DashRunEnd(s, i)))

SentFrom == {<<"e", "n", "t", " ", "f", "r", "o", "m", " ", "m", "y", " ">> \o d : d \in {<<"i", "P", "h", "o", "n", "e">>, <<"i", "P", "a", "d">>, <<"A", "n", "d", "r", "o", "i", "d">>, <<"S", "a", "m", "s", "u", "n", "g">>, <<"m", "o", "b", "i", "l", "e">>}} \cup {<<"e", "n", "t", " ", "v", "i", "a", " ">>}
EMAIL_FOOTER_PATTERN(s) ==
    \E a \in 1..Len(s) :
        /\ IsAt(s, a, <<NL, NL>>)
        /\ \E b \in (a + 2)..Len(s) :
             /\ s[b] \in {"S", "s"}
             /\ NoNewline(s, a + 2, b - 1)
             /\ WordAt(s, b + 1, SentFrom)

\* EmailHelper.detect_content_type(path, given), lines 57-95
EmailContentScore(s) ==
    (IF header_matches(s) >= 3 THEN 60 ELSE IF header_matches(s) > 0 THEN 30 ELSE 0)
    + (IF EMAIL_QUOTE_PATTERN(s) THEN 30 ELSE 0)
    + (IF EMAIL_SIGNATURE_PATTERN(s) THEN 20 ELSE 0)
    + (IF EMAIL_FORWARDED_PATTERN(s) THEN 40 ELSE 0)
    + (IF EMAIL_FOOTER_PATTERN(s) THEN 30 ELSE 0)
\* a wrong variant of Capped that returns the sum as it is
Uncapped(c) == c
\* min(confidence, 1.0)
Capped(c) == Min({c, 100})
EmailDetect(path, given, disk) ==
    IF EndsWith(Lower(path), <<".", "e", "m", "l">>) \/ EndsWith(Lower(path), <<".", "m", "s", "g">>) THEN Capped(80)
    ELSE IF ReadFails(given, disk) THEN 0
    ELSE Capped(EmailContentScore(Sample(given, disk)))

(* docs_helper.py *)
\* ^#+\s matches at line start i
HashesThenSpace(s, i) == s[i] = "#" /\ HashRunEnd(s, i) <= Len(s) /\ IsSpace(s[HashRunEnd(s, i)])
\* re.findall(DOC_HEADER_PATTERN, content) is not empty
DOC_HEADER_PATTERN(s) == \E i \in LineStarts(s) : HashesThenSpace(s, i)
\* set(re.findall(r'^(#+)\s+', content, re.MULTILINE)), each run of # by its length
header_levels(s) == {HashRunEnd(s, i) - i : i \in {k \in LineStarts(s) : HashesThenSpace(s, k)}}
\* re.findall(DOC_CODE_BLOCK_PATTERN, content) is not empty
DocCodeBlocks(s) == \E i \in 1..Len(s) : MatchBlockEnd(s, i, "docs") # 0
\* DOC_TABLE_PATTERN: a line of two characters or more that starts and ends with |
DOC_TABLE_PATTERN(s) ==
    \E i \in LineStarts(s) : s[i] = "|" /\ LineEnd(s, i) - 1 > i /\ s[LineEnd(s, i) - 1] = "|"
TocTitles == {<<"t", "a", "b", "l", "e", " ", "o", "f", " ", "c", "o", "n", "t", "e", "n", "t", "s">>, <<"c", "o", "n", "t", "e", "n", "t", "s">>, <<"t", "o", "c">>, <<"o", "n", " ", "t", "h", "i", "s", " ", "p", "a", "g", "e">>}
\* the list entry \*\s+\[.*?\]\(.*?\) at q
TocEntryAt(s, q) == q <= Len(s) /\ s[q] = "*" /\ AfterSpaces(s, q + 1) # 0
                    /\ AfterSpaces(s, q + 1) <= Len(s) /\ LinkAt(s, AfterSpaces(s, q + 1))
DOC_TOC_SECTION(s) ==
    \E a \in 1..Len(s) : \E p \in AfterWord(Lower(s), a, TocTitles) : TocEntryAt(s, SkipWs(s, p))
\* r'\*\*.*?\*\*|\*.*?\*|__.*?__|_.*?_|\[.*?\]\(.*?\)'
InlineFormatting(s) ==
    \/ \E a \in 1..Len(s) :
          /\ s[a] \in {"*", "_"}
          /\ \E b \in (a + 1)..Len(s) : s[b] = s[a] /\ NoNewline(s, a, b)
    \/ \E a \in 1..Len(s) : LinkAt(s, a)
\* r'^(?:[*+-]|\d+\.)\s+'
ListItems(s) ==
    \E i \in LineStarts(s) :
        \/ s[i] \in {"*", "+", "-"} /\ AfterSpaces(s, i + 1) # 0
        \/ DigitRunEnd(s, i) > i /\ IsAt(s, DigitRunEnd(s, i), <<".">>) /\ AfterSpaces(s, DigitRunEnd(s, i) + 1) # 0

DocExtensions == {<<".", "m", "d">>, <<".", "r", "s", "t">>, <<".", "t", "x", "t">>, <<".", "a", "d", "o", "c">>, <<".", "a", "s", "c", "i", "i", "d", "o", "c">>}
DocNames == {<<"r", "e", "a", "d", "m", "e">>, <<"g", "u", "i", "d", "e">>, <<"t", "u", "t", "o", "r", "i", "a", "l">>, <<"m", "a", "n", "u", "a", "l">>, <<"i", "n", "t", "r", "o", "d", "u", "c", "t", "i", "o", "n">>, <<"g", "e", "t", "t", "i", "n", "g", "-", "s", "t", "a", "r", "t", "e", "d">>, <<"d", "o", "c", "s">>, <<"d", "o", "c", "u", "m", "e", "n", "t", "a", "t", "i", "o", "n">>, <<"r", "e", "f", "e", "r", "e", "n", "c", "e">>, <<"h", "a", "n", "d", "b", "o", "o", "k">>, <<"s", "p", "e", "c", "i", "f", "i", "c", "a", "t", "i", "o", "n">>, <<"a", "p", "i">>, <<"h", "e", "l", "p">>}
DocsContentScore(s) ==
    (IF DOC_HEADER_PATTERN(s) THEN 30 + (IF Cardinality(header_levels(s)) > 1 THEN 20 ELSE 0) ELSE 0)
    + (IF DocCodeBlocks(s) THEN 20 ELSE 0)
    + (IF DOC_TABLE_PATTERN(s) THEN 20 ELSE 0)
    + (IF DOC_TOC_SECTION(s) THEN 30 ELSE 0)
    + (IF InlineFormatting(s) THEN 20 ELSE 0)
    + (IF ListItems(s) THEN 20 ELSE 0)
\* DocsHelper.detect_content_type(path, given), lines 57-113
DocsExtensionScore(path) == IF Lower(Suffix(path)) \in DocExtensions THEN 60 ELSE 0
DocsDetect(path, given, disk) ==
    IF Lower(Suffix(path)) \in DocExtensions /\ Lower(Stem(path)) \in DocNames THEN Capped(90)
    ELSE IF ReadFails(given, disk) THEN 0
    ELSE Capped(DocsExtensionScore(path) + DocsContentScore(Sample(given, disk)))

(* code_helper.py *)
EXTENSION_TO_LANGUAGE == {<<".", "p", "y">>, <<".", "j", "s">>, <<".", "t", "s">>, <<".", "j", "s", "x">>, <<".", "t", "s", "x">>, <<".", "j", "a", "v", "a">>, <<".", "c", "s">>, <<".", "c", "p", "p">>, <<".", "c">>, <<".", "g", "o">>, <<".", "r", "s">>, <<".", "r", "b">>, <<".", "p", "h", "p">>, <<".", "s", "w", "i", "f", "t">>, <<".", "k", "t">>, <<".", "s", "c", "a", "l", "a">>}
\* r'^(?:import|from|#include|using|require|package)\s+'
CodeImports(s) ==
    \E i \in LineStarts(s) : \E p \in AfterWord(s, i, {<<"i", "m", "p", "o", "r", "t">>, <<"f", "r", "o", "m">>, <<"#", "i", "n", "c", "l", "u", "d", "e">>, <<"u", "s", "i", "n", "g">>, <<"r", "e", "q", "u", "i", "r", "e">>, <<"p", "a", "c", "k", "a", "g", "e">>}) : AfterSpaces(s, p) # 0
\* r'(?:function|def|class|interface|struct|module)\s+\w+'
CodeDefinitions(s) ==
    \E a \in 1..Len(s) : \E p \in AfterWord(s, a, {<<"f", "u", "n", "c", "t", "i", "o", "n">>, <<"d", "e", "f">>, <<"c", "l", "a", "s", "s">>, <<"i", "n", "t", "e", "r", "f", "a", "c", "e">>, <<"s", "t", "r", "u", "c", "t">>, <<"m", "o", "d", "u", "l", "e">>}) :
        AfterSpaces(s, p) # 0 /\ WordRunEnd(s, AfterSpaces(s, p)) > AfterSpaces(s, p)
\* r'(?:var|let|const|int|float|double|string|boolean)\s+\w+\s*='
CodeAssignAfter(s, w) == WordRunEnd(s, w) > w /\ IsAt(s, SkipWs(s, WordRunEnd(s, w)), <<"=">>)
CodeAssignments(s) ==
    \E a \in 1..Len(s) : \E p \in AfterWord(s, a, {<<"v", "a", "r">>, <<"l", "e", "t">>, <<"c", "o", "n", "s", "t">>, <<"i", "n", "t">>, <<"f", "l", "o", "a", "t">>, <<"d", "o", "u", "b", "l", "e">>, <<"s", "t", "r", "i", "n", "g">>, <<"b", "o", "o", "l", "e", "a", "n">>}) :
        AfterSpaces(s, p) # 0 /\ CodeAssignAfter(s, AfterSpaces(s, p))
\* r'(?:if|for|while|switch|case)\s*\('
CodeConstructs(s) ==
    \E a \in 1..Len(s) : \E p \in AfterWord(s, a, {<<"i", "f">>, <<"f", "o", "r">>, <<"w", "h", "i", "l", "e">>, <<"s", "w", "i", "t", "c", "h">>, <<"c", "a", "s", "e">>}) : IsAt(s, SkipWs(s, p), <<"(">>)
\* r'(?://|#|/\*|\*/).*?(?:TODO|FIXME|HACK|NOTE)'
CodeComments(s) ==
    \E a \in 1..Len(s) : \E p \in AfterWord(s, a, {<<"/", "/">>, <<"#">>, <<"/", "*">>, <<"*", "/">>}) :
        \E b \in p..Len(s) :
            /\ WordAt(s, b, {<<"T", "O", "D", "O">>, <<"F", "I", "X", "M", "E">>, <<"H", "A", "C", "K">>, <<"N", "O", "T", "E">>})
            /\ NoNewline(s, p, b - 1)
\* what guess_lexer(content) adds: nothing when Pygments is not installed or
\* raises ClassNotFound, 0.7 for a lexer of code_lexers, 0.3 for another
Lexers == {"unavailable", "ClassNotFound", "code", "other"}
LexerScore(lexer) == IF lexer = "code" THEN 70 ELSE IF lexer = "other" THEN 30 ELSE 0
CodeContentScore(s) ==
    (IF CodeImports(s) THEN 40 ELSE 0)
    + (IF CodeDefinitions(s) THEN 50 ELSE 0)
    + (IF CodeAssignments(s) THEN 30 ELSE 0)
    + (IF CodeConstructs(s) THEN 30 ELSE 0)
    + (IF CodeComments(s) THEN 20 ELSE 0)
\* CodeHelper.detect_content_type(path, given), lines 85-138
CodeDetect(path, given, disk, lexer) ==
    IF Lower(Suffix(path)) \in EXTENSION_TO_LANGUAGE THEN Capped(80)
    ELSE IF ReadFails(given, disk) THEN 0
    ELSE Capped(LexerScore(lexer) + CodeContentScore(Sample(given, disk)))

(* notion_helper.py *)
\* the line [^\n]+: [^\n]+\n starts at p
PropertyLineAt(s, p) ==
    /\ LineEnd(s, p) <= Len(s)
    /\ \E m \in (p + 1)..(LineEnd(s, p) - 3) : IsAt(s, m, <<":", " ">>)
NOTION_PROPERTIES_PATTERN(s) ==
    \E i \in LineStarts(s) : \E p \in AfterWord(s, i, {<<"P", "r", "o", "p", "e", "r", "t", "y">>, <<"P", "r", "o", "p", "e", "r", "t", "i", "e", "s">>}) :
        /\ IsAt(s, p, <<":">>)
        /\ \E q \in SpacesThenNewline(s, p + 1) : PropertyLineAt(s, q + 1)
\* \d{4}\s*$ matches at d
YearAt(s, d) ==
    /\ d + 3 <= Len(s)
    /\ \A k \in d..(d + 3) : IsDigit(s[k])
    /\ \E q \in (d + 4)..(Len(s) + 1) : AllSpace(s, d + 4, q - 1) /\ (q = Len(s) + 1 \/ s[q] = NL)
NOTION_TIMESTAMPS_PATTERN(s) ==
    \E i \in LineStarts(s) : \E p \in AfterWord(s, i, {<<"C", "r", "e", "a", "t", "e", "d">>, <<"L", "a", "s", "t", " ", "E", "d", "i", "t", "e", "d">>}) :
        /\ p <= Len(s)
        /\ s[p] \in {" ", ":"}
        /\ \E d \in (p + 1)..Len(s) : YearAt(s, d) /\ NoNewline(s, p, d - 1)
NotionUrlPrefix == <<"h", "t", "t", "p", "s", ":", "/", "/", "w", "w", "w", ".", "n", "o", "t", "i", "o", "n", ".", "s", "o", "/">>
NOTION_URL_PATTERN(s) ==
    \E a \in 1..Len(s) :
        /\ IsAt(s, a, NotionUrlPrefix)
        /\ a + Len(NotionUrlPrefix) + 31 <= Len(s)
        /\ \A k \in (a + Len(NotionUrlPrefix))..(a + Len(NotionUrlPrefix) + 31) : IsHex(s[k])
NOTION_COMMENTS_PATTERN(s) ==
    \E a \in 1..Len(s) :
        /\ IsAt(s, a, <<"[", "[">>)
        /\ \E b \in (a + 3)..Len(s) :
             /\ IsAt(s, b, <<"]", "]">>)
             /\ \A k \in (a + 2)..(b - 1) : s[k] # "]"
\* the icons of a callout, each one character of the model
CalloutIcons == {"MEMO", "BULB", "WARNING", "INFORMATION", "MAGNIFIER", "PROHIBITED", "CHECK", "CROSS"}
NOTION_CALLOUT_PATTERN(s) ==
    \E a \in 1..Len(s) : s[a] = ">" /\ SkipWs(s, a + 1) <= Len(s) /\ s[SkipWs(s, a + 1)] \in CalloutIcons
NOTION_TOGGLE_PATTERN(s) ==
    \E a \in 1..Len(s) :
        /\ IsAt(s, a, <<"<", "d", "e", "t", "a", "i", "l", "s", ">">>)
        /\ \E b \in (a + 9)..Len(s) :
             /\ IsAt(s, b, <<"<", "s", "u", "m", "m", "a", "r", "y", ">">>)
             /\ \E c \in (b + 9)..Len(s) :
                  /\ IsAt(s, c, <<"<", "/", "s", "u", "m", "m", "a", "r", "y", ">">>)
                  /\ \E d \in (c + 10)..Len(s) :
                       IsAt(s, d, <<"<", "/", "d", "e", "t", "a", "i", "l", "s", ">">>)
NotionContentScore(s) ==
    (IF NOTION_PROPERTIES_PATTERN(s) THEN 50 ELSE 0)
    + (IF NOTION_TIMESTAMPS_PATTERN(s) THEN 30 ELSE 0)
    + (IF NOTION_URL_PATTERN(s) THEN 40 ELSE 0)
    + (IF NOTION_COMMENTS_PATTERN(s) THEN 20 ELSE 0)
    + (IF NOTION_CALLOUT_PATTERN(s) THEN 20 ELSE 0)
    + (IF NOTION_TOGGLE_PATTERN(s) THEN 20 ELSE 0)
\* NotionHelper.detect_content_type(path, given), lines 71-107
NotionDetect(path, given, disk) ==
    IF extract_notion_id(Basename(path)) # None THEN Capped(70)
    ELSE IF ReadFails(given, disk) THEN 0
    ELSE Capped(NotionContentScore(Sample(given, disk)))

(* markdown_helper.py *)
ThreeDashes == <<"-", "-", "-">>
\* \n\s*---\s*\n matches at n
ClosingDashesAt(s, n) ==
    s[n] = NL /\ IsAt(s, SkipWs(s, n + 1), ThreeDashes) /\ SpacesThenNewline(s, SkipWs(s, n + 1) + 3) # {}
\* r'^\s*---\s*\n.*?\n\s*---\s*\n' with re.DOTALL
frontmatter_pattern(s) ==
    /\ IsAt(s, SkipWs(s, 1), ThreeDashes)
    /\ \E q \in SpacesThenNewline(s, SkipWs(s, 1) + 3) : \E n \in (q + 1)..Len(s) : ClosingDashesAt(s, n)
\* r'^\s*---\s*\n.*?globs:.*?\n\s*---\s*\n' with re.DOTALL
mdc_frontmatter_pattern(s) ==
    /\ IsAt(s, SkipWs(s, 1), ThreeDashes)
    /\ \E q \in SpacesThenNewline(s, SkipWs(s, 1) + 3) : \E g \in (q + 1)..Len(s) :
         IsAt(s, g, <<"g", "l", "o", "b", "s", ":">>) /\ \E n \in (g + 6)..Len(s) : ClosingDashesAt(s, n)
\* '```' in content and self.code_block_pattern.search(content)
MdCodeBlocks(s) == \E i \in 1..Len(s) : MatchBlockEnd(s, i, "markdown") # 0
\* '#' in content and re.search(r'^#+\s+\w+', content, re.MULTILINE)
MdHeaderAt(s, r) == AfterSpaces(s, r) # 0 /\ WordRunEnd(s, AfterSpaces(s, r)) > AfterSpaces(s, r)
MdHeaders(s) == \E i \in LineStarts(s) : s[i] = "#" /\ MdHeaderAt(s, HashRunEnd(s, i))
\* self.link_pattern.search(content) or self.image_pattern.search(content)
MdLinks(s) == \E a \in 1..Len(s) : LinkAt(s, a)
\* r'^\s*(?:description|globs|mode|scope|options):\s*.*?$' with re.MULTILINE
cursorrules_properties_pattern(s) ==
    \E i \in LineStarts(s) : \E p \in AfterWord(s, SkipWs(s, i), {<<"d", "e", "s", "c", "r", "i", "p", "t", "i", "o", "n">>, <<"g", "l", "o", "b", "s">>, <<"m", "o", "d", "e">>, <<"s", "c", "o", "p", "e">>, <<"o", "p", "t", "i", "o", "n", "s">>}) : IsAt(s, p, <<":">>)
MdExtensionScore(low) ==
    IF EndsWith(low, <<".", "m", "d">>) THEN 90
    ELSE IF EndsWith(low, <<".", "m", "d", "c">>) THEN 95
    ELSE IF EndsWith(low, <<".", "c", "u", "r", "s", "o", "r", "r", "u", "l", "e", "s">>) THEN 95
    ELSE IF EndsWith(low, <<".", "m", "a", "r", "k", "d", "o", "w", "n">>) THEN 90
    ELSE 0
MdContentScore(s) ==
    IF frontmatter_pattern(s) THEN 80
    ELSE IF MdCodeBlocks(s) THEN 70
    ELSE IF MdHeaders(s) THEN 60
    ELSE IF MdLinks(s) THEN 50
    ELSE IF mdc_frontmatter_pattern(s) THEN 90
    ELSE IF cursorrules_properties_pattern(s) THEN 85
    ELSE 10
\* MarkdownHelper.detect_content_type(path, given), lines 76-109: the file is never read
MarkdownDetect(path, given) ==
    IF path = <<>> THEN 0
    ELSE IF MdExtensionScore(Lower(path)) # 0 THEN MdExtensionScore(Lower(path))
    ELSE IF given # None /\ given # <<>> THEN MdContentScore(given)
    ELSE 10

\* helper.detect_content_type(path, given) of an instance of the helper
InstanceDetect(h, path, given, disk, lexer) ==
    IF h = "email" THEN EmailDetect(path, given, disk)
    ELSE IF h = "docs" THEN DocsDetect(path, given, disk)
    ELSE IF h = "code" THEN CodeDetect(path, given, disk, lexer)
    ELSE IF h = "notion" THEN NotionDetect(path, given, disk)
    ELSE MarkdownDetect(path, given)

\* the texts detect_content_type is given or reads: lines that make the
\* patterns match, at most MaxDetPieces of them, in this order
MaxDetPieces == 2
DetPieces == <<
    <<"-", "-", "-", NL, "a", NL, "-", "-", "-", NL>>,
    <<"#", " ", "a", NL>>,
    <<"#", "#", " ", "a", NL, "*", " ", "*", NL>>,
    <<"T", "o", ":", " ", "a", NL>>,
    <<"T", "o", ":", " ", "a", NL, "C", "c", ":", " ", "a", NL, "T", "o", ":", " ", "a", NL>>,
    <<">", " ", "a", NL>>,
    <<"-", "-", "-", " ", "O", "r", "i", "g", "i", "n", "a", "l", " ", "m", "e", "s", "s", "a", "g", "e", NL>>,
    <<"i", "m", "p", "o", "r", "t", " ", "a", NL>>,
    <<"d", "e", "f", " ", "a", NL>>,
    <<"[", "[", "a", "]", "]", NL>>,
    <<"P", "r", "o", "p", "e", "r", "t", "i", "e", "s", ":", NL, "a", ":", " ", "a", NL>>,
    <<"h", "t", "t", "p", "s", ":", "/", "/", "w", "w", "w", ".", "n", "o", "t", "i", "o", "n", ".", "s", "o", "/", "a", "a", "a", "a", "a", "a", "a", "a", "a", "a", "a", "a", "a", "a", "a", "a", "a", "a", "a", "a", "a", "a", "a", "a", "a", "a", "a", "a", "a", "a", "a", "a", NL>> >>
RECURSIVE PickPieces(_)
PickPieces(S) == IF S = {} THEN <<>> ELSE DetPieces[Min(S)] \o PickPieces(S \ {Min(S)})
DetContents == {PickPieces(S) : S \in {T \in SUBSET (1..Len(DetPieces)) : Cardinality(T) <= MaxDetPieces}}
PathEml == <<"x", ".", "e", "m", "l">>
PathNotionEml == <<"p", " ">> \o NotionId \o <<".", "e", "m", "l">>
DetPaths == {PathTxt, PathEml, PathNotionEml, <<"x", ".", "p", "y">>, <<"r", "e", "a", "d", "m", "e", ".", "m", "d">>, <<"x">>}

\* a wrong variant of StatsAfterDetect that counts the probed file
StatsAfterDetectCounted(st) == [st EXCEPT !.files_processed = @ + 1]

\* self.stats of a helper once its detect_content_type has returned: the
\* five methods read the path and the content and assign to no attribute
StatsAfterDetect(st) == st

\* helper.detect_content_type(path, given) is called on the helper instance;
\* disk is what is at path and lexer what guess_lexer does
DetectCalled(path, given, disk, lexer) ==
    /\ file_path' = path
    /\ content' = given
    /\ detect_call' = [given |-> given, disk |-> disk, lexer |-> lexer]
    /\ confidence' = InstanceDetect(helper, path, given, disk, lexer)
    /\ pc' = "detected"
    /\ hstats' = StatsAfterDetect(hstats)
    /\ UNCHANGED <<helper, rulesImportable, stage, data, optimized, opt_stats, final, result,
                   preprocessed_data, ran, failed_stage>>
    /\ UNCHANGED <<default_mode, config, helpers, ustats, force_mode, content_type, scores,
                   helper_result>>
    /\ UNCHANGED <<directory, extensions, walk_pos, optimized_files, outcomes, id_map,
                   cleaned_paths, helper_specific_data, rvars>>

HelperDetect ==
    /\ helper \in Range(HelperTypes)
    /\ pc = "idle"
    /\ \E path \in DetPaths, given \in DetContents \cup {None},
          lexer \in (IF helper = "code" THEN Lexers ELSE {"unavailable"}) :
         \E disk \in (IF given = None THEN DetContents \cup {Missing, Directory, Unreadable} ELSE {None}) :
            DetectCalled(path, given, disk, lexer)

NextHelperDetect == HelperDetect

SpecHelperDetect == InitHelper /\ [][NextHelperDetect]_vars

(***************************************************************************)
(* NotionHelper.clean_file_path (notion_helper.py, lines 128-158), which   *)
(* notion_helpers.notion_clean_path repeats without the cache and the map  *)
(***************************************************************************)
\* path.split('/')
RECURSIVE SplitPath(_)
SplitPathAt(path, k) == IF k = 0 THEN <<path>>
                        ELSE <<SubSeq(path, 1, k - 1)>> \o SplitPath(SubSeq(path, k + 1, Len(path)))
SplitPath(path) == SplitPathAt(path, FindFrom(path, <<"/">>, 1))
\* '/'.join(parts)
RECURSIVE JoinPath(_)
JoinPath(parts) == IF Len(parts) = 0 THEN <<>>
                   ELSE IF Len(parts) = 1 THEN parts[1]
                   ELSE parts[1] \o <<"/">> \o JoinPath(Tail(parts))

\* extract_notion_id(part)[0]: match.group(1).strip(), the part itself when
\* NOTION_ID_PATTERN does not match; i is the leftmost start of a match
CleanNameFrom(part, i) ==
    IF i = 0 THEN part
    ELSE Strip(SubSeq(part, i, Min({j \in (i + 1)..Len(part) : NotionIdMatch(part, i, j)}) - 1))
clean_name(part) ==
    CleanNameFrom(part, MinOr0({i \in 1..Len(part) : \E j \in (i + 1)..Len(part) : NotionIdMatch(part, i, j)}))

cleaned_parts(path) == [n \in 1..Len(SplitPath(path)) |-> clean_name(SplitPath(path)[n])]
\* the path clean_file_path computes
CleanPath(path) == JoinPath(cleaned_parts(path))
\* the entries the loop writes: self.id_map['/'.join(cleaned_parts)] = notion_id
NewIds(path) ==
    {<<JoinPath(SubSeq(cleaned_parts(path), 1, n)), extract_notion_id(SplitPath(path)[n])>> :
        n \in {k \in 1..Len(SplitPath(path)) : extract_notion_id(SplitPath(path)[k]) # None}}
\* a dict after the assignments of new: an old entry stays unless its key is assigned
Assigned(dict, new) == {e \in dict : \A f \in new : f[1] # e[1]} \cup new

\* the counters after a path was cleaned: notion_ids_count is increased once
\* for each part with an id, cleaned_files once
CountedClean(counters, path) ==
    [counters EXCEPT
        !.notion_ids_count = @ + Cardinality({k \in 1..Len(SplitPath(path)) :
                                                extract_notion_id(SplitPath(path)[k]) # None}),
        !.cleaned_files = @ + 1]

\* the most paths the cache of a helper holds
MaxCleaned == 3
NotionId2 == Rep("b", 32)
NotionSegments == { <<"p">>,
                    <<"p", " ">> \o NotionId,
                    <<"p", " ">> \o NotionId2 \o <<".", "m", "d">>,
                    <<"p", " ">> \o NotionId \o <<" ">> \o NotionId2 }
NotionPaths == NotionSegments \cup {<<"d", "_">> \o NotionId \o <<"/">> \o seg : seg \in NotionSegments}

\* a wrong variant of InCache that never finds the path
InCacheNever(cache, path) == FALSE

\* path in self.cleaned_paths
InCache(cache, path) == \E e \in cache : e[1] = path

\* clean_file_path(path); to says where the caller goes on
CleanCall(path, to) ==
    /\ helper = "notion"
    /\ file_path' = path
    /\ pc' = to
    /\ IF InCache(cleaned_paths, path)
       THEN /\ result' = Returned((CHOOSE e \in cleaned_paths : e[1] = path)[2], NoStats)
            /\ UNCHANGED <<id_map, cleaned_paths, helper_specific_data>>
       ELSE /\ Cardinality(cleaned_paths) < MaxCleaned
            /\ id_map' = Assigned(id_map, NewIds(path))
            /\ cleaned_paths' = cleaned_paths \cup {<<path, CleanPath(path)>>}
            /\ helper_specific_data' = CountedClean(helper_specific_data, path)
            /\ result' = Returned(CleanPath(path), NoStats)
    /\ UNCHANGED <<helper, rulesImportable, stage, content, data, optimized, opt_stats, final,
                   hstats, preprocessed_data, ran, failed_stage>>
    /\ UNCHANGED <<dvars, directory, extensions, walk_pos, optimized_files, outcomes, detect_call,
                   rvars>>

\* a caller cleans a path of an export
CleanFilePath(path) ==
    /\ pc \in {"idle", "cleaned", "recleaned"}
    /\ CleanCall(path, "cleaned")

\* a caller cleans the path the last call returned
CleanAgain ==
    /\ pc = "cleaned"
    /\ CleanCall(result.text, "recleaned")

InitNotion == InitHelper /\ helper = "notion"

NextNotion ==
    \/ \E path \in NotionPaths : CleanFilePath(path)
    \/ CleanAgain

SpecNotion == InitNotion /\ [][NextNotion]_vars

(***************************************************************************)
(* optimize_directory (unified_optimizer.py, lines 174-207)                *)
(***************************************************************************)
\* the most files a walked directory holds
MaxFiles == 2

\* what os.walk may list: a name and what is found there.  Missing is a
\* link whose target does not exist.  The files lie directly under
\* directory_path, so rel_path is the name os.walk gave.
WalkDisk == {Missing, Unreadable, <<>>, <<"a">>}
WalkNames == <<PathTxt, PathMdc, PathNotion>>
WalkFile(i, disk) == [path |-> WalkNames[i], disk |-> disk]
\* listings of n files with different names
Listings(n) == { f \in [1..n -> {WalkFile(i, d) : i \in 1..Min({MaxFiles, Len(WalkNames)}), d \in WalkDisk}] :
                    \A i, j \in 1..n : f[i].path = f[j].path => i = j }
Directories == UNION {Listings(n) : n \in 0..MaxFiles}
ExtensionLists == {{}, {<<".", "t", "x", "t">>}}
WalkModes == {NoMode, "markdown", "pdf"}

\* lines 186-188: the call and the start of the walk
OptimizeDirectory(files, fm, exts) ==
    /\ default_mode # NoMode
    /\ pc = "idle"
    /\ directory' = files
    /\ extensions' = exts
    /\ force_mode' = fm
    /\ walk_pos' = 1
    /\ optimized_files' = {}
    /\ pc' = "walk"
    /\ UNCHANGED <<outcomes, id_map, cleaned_paths, detect_call, helper_specific_data, rvars>>
    /\ UNCHANGED hvars_but_pc_result
    /\ UNCHANGED <<result, default_mode, config, helpers, ustats, content_type, confidence,
                   scores, helper_result>>

\* line 194: extensions and not any(file_path.lower().endswith(ext) for ext in extensions)
FilteredOut(path) == extensions # {} /\ ~(\E ext \in extensions : EndsWith(Lower(path), ext))

\* lines 189-200: the next file is skipped by the filter, or optimize_file is called on it
VisitFile ==
    /\ pc = "walk"
    /\ walk_pos \in 1..Len(directory)
    /\ IF FilteredOut(directory[walk_pos].path)
       THEN /\ walk_pos' = walk_pos + 1
            /\ UNCHANGED <<directory, extensions, optimized_files, outcomes, id_map, cleaned_paths,
                           detect_call, helper_specific_data, rvars>>
            /\ UNCHANGED hvars
            /\ UNCHANGED dvars
       ELSE /\ ReadFile(directory[walk_pos].path, None, directory[walk_pos].disk, force_mode)
            /\ UNCHANGED xvars

\* lines 200-201: optimize_file has returned; its text is stored and its stats are dropped
StoreResult ==
    /\ pc = "done"
    /\ walk_pos \in 1..Len(directory)
    /\ optimized_files' = {e \in optimized_files : e[1] # file_path} \cup {<<file_path, result.text>>}
    /\ outcomes' = Append(outcomes, result)
    /\ walk_pos' = walk_pos + 1
    /\ pc' = "walk"
    /\ UNCHANGED <<directory, extensions, id_map, cleaned_paths, detect_call, helper_specific_data,
                   rvars>>
    /\ UNCHANGED hvars_but_pc_result
    /\ UNCHANGED <<result, dvars>>

\* lines 206-207: the walk is over and optimized_files is returned with self.stats
ReturnFiles ==
    /\ pc = "walk"
    /\ walk_pos > Len(directory)
    /\ pc' = "walked"
    /\ UNCHANGED <<result, xvars, dvars>>
    /\ UNCHANGED hvars_but_pc_result

NextDirectory ==
    \/ \E files \in Directories, fm \in WalkModes, exts \in ExtensionLists :
         OptimizeDirectory(files, fm, exts)
    \/ VisitFile
    \/ SelectContentType
    \/ \E probe \in {"missing", "empty", "data"} : RunHelper(probe)
    \/ StoreResult
    \/ ReturnFiles

SpecDirectory == InitDispatcher /\ [][NextDirectory]_vars

(***************************************************************************)
(* detect_content_type, lines 65-83, on any scores the helpers may report  *)
(***************************************************************************)
\* confidences around the fallback threshold, in hundredths
ScoreValues == {LowConfidence - 1, LowConfidence, LowConfidence + 1}

\* detect_content_type has asked the five helpers and holds their scores
InitScored ==
    /\ helper = NoMode
    /\ rulesImportable = TRUE
    /\ pc = "scored"
    /\ stage = "NONE"
    /\ file_path = PathTxt
    /\ content = None
    /\ data = NoData
    /\ optimized = None
    /\ opt_stats = NoStats
    /\ final = None
    /\ result = NoResult
    /\ hstats = [files_processed |-> 0, optimizations_applied |-> 0]
    /\ preprocessed_data = NoData
    /\ ran = [s \in Range(Stages) |-> 0]
    /\ failed_stage = "none"
    /\ default_mode \in DefaultModes
    /\ config = {}
    /\ helpers = Range(HelperTypes)
    /\ ustats = NoUStats
    /\ force_mode = NoMode
    /\ content_type = NoMode
    /\ confidence = 0
    /\ scores \in [Range(HelperTypes) -> ScoreValues]
    /\ helper_result = NoResult
    /\ InitExtra

\* lines 75-83: the best match and the fallback to the default
PickBest ==
    /\ UNCHANGED xvars
    /\ pc = "scored"
    /\ Chosen(DetectResult(scores, default_mode))
    /\ Return(Returned(None, NoStats))
    /\ UNCHANGED hvars_but_pc_result
    /\ UNCHANGED <<default_mode, config, helpers, ustats, force_mode, scores, helper_result>>

InitDetect == InitDispatcher \/ InitScored

NextDetect ==
    \/ \E path \in {PathTxt, None}, given \in DContents \cup {None} :
         \E disk \in DiskStates(given) : DetectContentType(path, given, disk)
    \/ PickBest

SpecDetect == InitDetect /\ [][NextDetect]_vars

(***************************************************************************)
(* process_file on files made of heading lines                              *)
(***************************************************************************)
\* number of lines of a heading file
MaxHeadLines == 3

\* the lines: two first-level headings, a second-level heading, a line of
\* text, and the empty line
HeadLines == <<<<"#", " ", "a">>, <<"#", " ", "b">>, <<"#", "#", " ", "a">>, <<"b">>, <<>>>>

RECURSIVE LinesOf(_)
LinesOf(n) == IF n = 1 THEN {<<HeadLines[i]>> : i \in DOMAIN HeadLines}
              ELSE {Append(ls, HeadLines[i]) : ls \in LinesOf(n - 1), i \in DOMAIN HeadLines}

\* the lines of ls joined with newlines
RECURSIVE JoinNL(_)
JoinNL(ls) == IF Len(ls) = 1 THEN ls[1] ELSE ls[1] \o <<NL>> \o JoinNL(Tail(ls))

\* a heading, the same heading again, a blank line and a line of text
TitleTwice == <<"#", " ", "T", "i", "t", "l", "e", NL, "#", " ", "T", "i", "t", "l", "e", NL, NL, "B", "o", "d", "y", " ", "t", "e", "x", "t", ".">>
TitleOnce == <<"#", " ", "T", "i", "t", "l", "e", NL, NL, "B", "o", "d", "y", " ", "t", "e", "x", "t", ".">>

HeadingContents == {JoinNL(ls) : ls \in UNION {LinesOf(n) : n \in 1..MaxHeadLines}} \cup {TitleTwice}

\* the helpers whose optimize stage has a duplicate-heading step
HeadingHelpers == {"markdown", "docs", "notion"}

InitHeadings == InitHelper /\ helper \in HeadingHelpers

\* helper.process_file(path, content) with the content given
ProcessHeadings == \E given \in HeadingContents : ProcessFile(PathTxt, given, Missing)

NextHeadings ==
    \/ ProcessHeadings
    \/ Preprocess(FALSE)
    \/ Optimize(FALSE)
    \/ Postprocess(FALSE)
    \/ Finish

SpecHeadings == InitHeadings /\ [][NextHeadings]_vars

(***************************************************************************)
(* process_file of the Notion helper on files that hold a properties block  *)
(***************************************************************************)
\* number of property lines of a block
MaxProps == 2

\* the property lines: names of the lookup table and one that is not in it,
\* plain values and values in brackets
PropertyLines ==
    << <<"T", "i", "t", "l", "e", ":", " ", "H", "e", "l", "l", "o">>,
       <<"T", "a", "g", "s", ":", " ", "[", "a", ",", " ", "b", "]">>,
       <<"N", "a", "m", "e", ":", " ", "a">>,
       <<"O", "w", "n", "e", "r", ":", " ", "b">>,
       <<"P", "u", "b", "l", "i", "s", "h", "e", "d", ":", " ", "[", "a", ",", "b", " ", "]">>,
       <<"S", "u", "m", "m", "a", "r", "y", ":", " ", " ", "a", ":", " ", "b">> >>

PropertyHeaders == {<<"P", "r", "o", "p", "e", "r", "t", "i", "e", "s", ":">>, <<"P", "r", "o", "p", "e", "r", "t", "y", ":">>}

\* what follows the block: nothing, or a blank line and a line of text
PropertyTails == {<<>>, <<NL, "b">>}

\* the choices of 1..MaxProps property lines, as indexes into PropertyLines
RECURSIVE PickLines(_)
PickLines(n) == IF n = 1 THEN {<<i>> : i \in DOMAIN PropertyLines}
                ELSE {Append(ls, i) : ls \in PickLines(n - 1), i \in DOMAIN PropertyLines}

PropertyPicks == UNION {PickLines(n) : n \in 1..MaxProps}

\* the header line, the property lines, and what follows
BlockOf(header, picks, tail) ==
    header \o <<NL>> \o ConcatAll([i \in 1..Len(picks) |-> PropertyLines[picks[i]] \o <<NL>>]) \o tail

PropertyContents ==
    {BlockOf(h, ls, tl) : h \in PropertyHeaders, ls \in PropertyPicks, tl \in PropertyTails}

InitProperties == InitHelper /\ helper = "notion"

\* helper.process_file(path, content) with the content given
ProcessProperties ==
    \E path \in {PathTxt, PathNotion}, given \in PropertyContents : ProcessFile(path, given, Missing)

NextProperties ==
    \/ ProcessProperties
    \/ Preprocess(FALSE)
    \/ Optimize(FALSE)
    \/ Postprocess(FALSE)
    \/ Finish

SpecProperties == InitProperties /\ [][NextProperties]_vars

(***************************************************************************)
(* process_file of the Email helper on bodies with quoted lines             *)
(***************************************************************************)
\* number of lines of an email body
MaxQuoteLines == 4

\* the lines: a line of text, a line quoted once, twice and three times, and
\* the empty line
QuoteLines == <<<<"a">>, <<">", " ", "b">>, <<">", ">", " ", "c">>, <<">", ">", ">", " ", "d">>, <<>>>>

RECURSIVE QuotePicks(_)
QuotePicks(n) == IF n = 1 THEN {<<QuoteLines[i]>> : i \in DOMAIN QuoteLines}
                 ELSE {Append(ls, QuoteLines[i]) : ls \in QuotePicks(n - 1), i \in DOMAIN QuoteLines}

QuoteContents == {JoinLines(ls) : ls \in UNION {QuotePicks(n) : n \in 1..MaxQuoteLines}}

InitQuotes == InitHelper /\ helper = "email"

\* helper.process_file(path, content) with the content given
ProcessQuotes == \E given \in QuoteContents : ProcessFile(PathTxt, given, Missing)

NextQuotes ==
    \/ ProcessQuotes
    \/ Preprocess(FALSE)
    \/ Optimize(FALSE)
    \/ Postprocess(FALSE)
    \/ Finish

SpecQuotes == InitQuotes /\ [][NextQuotes]_vars

(***************************************************************************)
(* One helper instance over several files, each run through process_file   *)
(* or through its three stage methods called one after the other           *)
(***************************************************************************)
\* number of files one instance is given
MaxCalls == 2

\* the files: a letter; one fenced block; a letter and another block; two blocks
InstanceContents == { <<"a">>,
                      Block(<<"b">>) \o <<NL>>,
                      <<"a">> \o Block(<<"c">>),
                      Block(<<"b">>) \o <<NL>> \o Block(<<"c">>) }

\* the stage calls still allowed on the instance
CallsLeft == ran["preprocess"] < MaxCalls

\* helper.process_file(path, content) with the content given
ProcessInstance ==
    /\ CallsLeft
    /\ \E given \in InstanceContents : ProcessFile(PathTxt, given, Missing)

\* the three stage calls gave d, o and f; postprocess_content of the Markdown
\* helper counts the file (markdown_helper.py, line 365)
StagesGave(d, o, f) ==
    /\ data' = d
    /\ pc' = "staged"
    /\ IF o.raised
       THEN /\ result' = Raised("stage exception")
            /\ failed_stage' = "optimize"
            /\ ran' = [ran EXCEPT !["preprocess"] = @ + 1, !["optimize"] = @ + 1]
            /\ stage' = StageReached("preprocess")
            /\ UNCHANGED <<optimized, opt_stats, final, hstats>>
       ELSE /\ optimized' = o.text
            /\ opt_stats' = o.stats
            /\ final' = f
            /\ result' = Returned(f, o.stats)
            /\ ran' = [s \in Range(Stages) |-> ran[s] + 1]
            /\ stage' = StageReached("postprocess")
            /\ hstats' = IF helper = "markdown"
                         THEN [hstats EXCEPT !.files_processed = @ + 1] ELSE hstats
            /\ UNCHANGED failed_stage

StagesOptimized(d, o) == StagesGave(d, o, PostprocessOf(helper, o.text, preprocessed_data))

\* d = helper.preprocess_content(given, path); o = helper.optimize_content(d, path);
\* helper.postprocess_content(o[0], path): the caller runs the stages itself,
\* and self._preprocessed_data is what the last process_file left
CallStages(path, given) ==
    /\ helper \in Range(HelperTypes)
    /\ pc = "idle"
    /\ CallsLeft
    /\ file_path' = path
    /\ content' = given
    /\ StagesOptimized(PreprocessOf(helper, given, path),
                       OptimizeOf(helper, PreprocessOf(helper, given, path), rulesImportable))
    /\ UNCHANGED <<helper, rulesImportable, preprocessed_data>>
    /\ UNCHANGED <<dvars, xvars>>

\* the call has returned and the caller turns to the next file: the locals of
\* the call are gone, the attributes of the instance stay
NextFile ==
    /\ pc \in {"done", "staged"}
    /\ CallsLeft
    /\ pc' = "idle"
    /\ stage' = "NONE"
    /\ file_path' = None
    /\ content' = None
    /\ data' = NoData
    /\ optimized' = None
    /\ opt_stats' = NoStats
    /\ final' = None
    /\ result' = NoResult
    /\ failed_stage' = "none"
    /\ UNCHANGED <<helper, rulesImportable, hstats, preprocessed_data, ran>>
    /\ UNCHANGED <<dvars, xvars>>

NextInstance ==
    \/ ProcessInstance
    \/ \E given \in InstanceContents : CallStages(PathTxt, given)
    \/ Preprocess(FALSE)
    \/ Optimize(FALSE)
    \/ Postprocess(FALSE)
    \/ Finish
    \/ NextFile

SpecInstance == InitHelper /\ [][NextInstance]_vars

(***************************************************************************)
(* process_with_content_helpers (optimize.py, lines 442-775): a directory  *)
(* is scanned and its files are written to one output document             *)
(***************************************************************************)
\* the characters of the tree drawing, each one character of the text
CORNER == "CORNER"
TEE == "TEE"
DASH == "DASH"

OPTIMIZED_SECTION_SEPARATOR == Rep("=", 64)
\* OPTIMIZED_HEADER_FORMAT.format(mode=mode.upper(), source_type="Directory")
ModeUpper(m) == CASE m = "auto"     -> <<"A", "U", "T", "O">>
                  [] m = "docs"     -> <<"D", "O", "C", "S">>
                  [] m = "markdown" -> <<"M", "A", "R", "K", "D", "O", "W", "N">>
Header(m) == <<"R", "e", "p", "o", "s", "i", "t", "o", "r", "y", " ", "S", "n", "a", "p", "s", "h", "o", "t", " ", "(", "O", "p", "t", "i", "m", "i", "z", "e", "d", " ", "f", "o", "r", ":", " ">> \o ModeUpper(m) \o <<",", " ", "S", "o", "u", "r", "c", "e", ":", " ", "D", "i", "r", "e", "c", "t", "o", "r", "y", ")">>
\* OPTIMIZED_FILE_SEPARATOR_FORMAT.format(file_path=rel_path)
FileSeparator(path) == <<"-", "-", "-", " ", "F", "I", "L", "E", ":", " ">> \o path \o <<" ", "-", "-", "-">>
DirectoryStructure == <<"#", " ", "D", "i", "r", "e", "c", "t", "o", "r", "y", " ", "S", "t", "r", "u", "c", "t", "u", "r", "e">>
FilesHeading == <<"#", " ", "F", "i", "l", "e", "s">>

\* generate_directory_tree(file_paths) for files that lie directly under the
\* directory: one line for each file, the last one with the corner
TreeLine(paths, i) ==
    <<NL>> \o (IF i = Len(paths) THEN <<CORNER>> ELSE <<TEE>>) \o <<DASH, DASH, " ">> \o paths[i]

generate_directory_tree(paths) ==
    IF paths = <<>> THEN <<BT, BT, BT, NL, "N", "o", " ", "f", "i", "l", "e", "s", " ", "f", "o", "u", "n", "d", NL, BT, BT, BT>>
    ELSE Fence \o ConcatAll([i \in 1..Len(paths) |-> TreeLine(paths, i)]) \o <<NL>> \o Fence

\* "\n\n".join(sections)
RECURSIVE JoinSections(_)
JoinSections(ss) == IF ss = <<>> THEN <<>>
                    ELSE IF Len(ss) = 1 THEN ss[1]
                    ELSE ss[1] \o <<NL, NL>> \o JoinSections(Tail(ss))

\* what scan_directory may return: the names in sorted order, and what open()
\* finds at each when it is read (Unreadable: the file can no longer be read)
RunNames == <<PathNotion, PathMdc, PathTxt>>
RunDisk == {Unreadable, <<>>, <<"a">>, Block(<<"c", NL, NL, NL, "d">>)}
RunListings == UNION { { [i \in 1..Cardinality(S) |->
                            [path |-> RunNames[CHOOSE k \in S : Cardinality({j \in S : j < k}) = i - 1],
                             disk |-> d[i]]] :
                         d \in [1..Cardinality(S) -> RunDisk] } :
                       S \in {T \in SUBSET (1..Len(RunNames)) : Cardinality(T) <= MaxFiles} }
\* the modes; the paths of the model have no id when the mode is notion
RunModes == {"auto", "docs", "markdown", "pdf"}

\* the sections before the first file, lines 557-569
FirstSections(m, paths) ==
    << Header(m), OPTIMIZED_SECTION_SEPARATOR, DirectoryStructure, generate_directory_tree(paths),
       OPTIMIZED_SECTION_SEPARATOR, FilesHeading, OPTIMIZED_SECTION_SEPARATOR >>

\* lines 464-569: the scan, the report of an empty scan, the helper for the
\* mode (docs for a mode that is not registered) and the first sections
ProcessWithContentHelpers(files, m) ==
    /\ default_mode # NoMode
    /\ pc = "idle"
    /\ directory' = files
    /\ IF files = <<>>
       THEN /\ report_stats' = [written |-> TRUE, files_processed |-> 0, files_skipped |-> files_skipped]
            /\ mode' = m
            /\ pc' = "ran"
            /\ UNCHANGED <<walk_pos, processed_content_sections>>
       ELSE /\ mode' = IF m \in Range(HelperTypes) \cup {"auto"} THEN m ELSE "docs"
            /\ processed_content_sections' = FirstSections(mode', [i \in 1..Len(files) |-> files[i].path])
            /\ walk_pos' = 1
            /\ pc' = "entries"
            /\ UNCHANGED report_stats
    /\ UNCHANGED <<files_processed, files_skipped, output_file>>
    /\ UNCHANGED <<extensions, optimized_files, outcomes, id_map, cleaned_paths, detect_call,
                   helper_specific_data>>
    /\ UNCHANGED hvars_but_pc_result
    /\ UNCHANGED <<result, dvars>>

\* the helper the UnifiedOptimizer of __init__.py selects: the first of docs,
\* code, notion, email and markdown with the highest confidence, the first
\* four answering 0.5
AutoHelper(path, text) == IF MarkdownDetect(path, text) > 50 THEN "markdown" ELSE "docs"

\* optimizer.optimize_file(file_path, file_content) in auto mode,
\* helper_class().process_file(file_path, file_content) otherwise
HelperText(m, path, text) ==
    InstanceProcessFile(IF m = "auto" THEN AutoHelper(path, text) ELSE m, path, text)

\* lines 589-655: the next file is read and processed; a file that cannot be
\* read is skipped
ProcessEntry ==
    /\ pc = "entries"
    /\ walk_pos \in 1..Len(directory)
    /\ walk_pos' = walk_pos + 1
    /\ IF directory[walk_pos].disk = Unreadable
       THEN /\ files_skipped' = files_skipped + 1
            /\ UNCHANGED <<files_processed, processed_content_sections>>
       ELSE /\ processed_content_sections' =
                  processed_content_sections
                  \o << FileSeparator(directory[walk_pos].path),
                        HelperText(mode, directory[walk_pos].path, directory[walk_pos].disk) >>
            /\ files_processed' = files_processed + 1
            /\ UNCHANGED files_skipped
    /\ UNCHANGED <<mode, output_file, report_stats>>
    /\ UNCHANGED <<directory, extensions, optimized_files, outcomes, id_map, cleaned_paths,
                   detect_call, helper_specific_data>>
    /\ UNCHANGED <<hvars, dvars>>

\* lines 669-775: the sections are joined and written, the report is generated
WriteOutput ==
    /\ pc = "entries"
    /\ walk_pos > Len(directory)
    /\ output_file' = [written |-> TRUE, text |-> JoinSections(processed_content_sections)]
    /\ report_stats' = [written |-> TRUE, files_processed |-> files_processed,
                        files_skipped |-> files_skipped]
    /\ pc' = "ran"
    /\ UNCHANGED <<mode, processed_content_sections, files_processed, files_skipped>>
    /\ UNCHANGED <<directory, extensions, walk_pos, optimized_files, outcomes, id_map,
                   cleaned_paths, detect_call, helper_specific_data>>
    /\ UNCHANGED hvars_but_pc_result
    /\ UNCHANGED <<result, dvars>>

\* get_unified_optimizer(default_mode="docs")
InitRun == InitDispatcher /\ default_mode = "docs" /\ config = {}

NextRun ==
    \/ \E files \in RunListings, m \in RunModes : ProcessWithContentHelpers(files, m)
    \/ ProcessEntry
    \/ WriteOutput

SpecRun == InitRun /\ [][NextRun]_vars

Next ==
    \/ \E path \in Paths \cup {None}, given \in Contents \cup {None} :
         \E disk \in (IF given = None THEN Contents \cup {Missing} ELSE {Missing}) :
            ProcessFile(path, given, disk)
    \/ \E raises \in BOOLEAN : Preprocess(raises)
    \/ \E raises \in BOOLEAN : Optimize(raises)
    \/ \E raises \in BOOLEAN : Postprocess(raises)
    \/ Finish
    \/ \E path \in {PathTxt, None}, given \in DContents \cup {None}, fm \in ForceModes :
         \E disk \in DiskStates(given) : OptimizeFile(path, given, disk, fm)
    \/ SelectContentType
    \/ \E probe \in {"missing", "empty", "data"} : RunHelper(probe)
    \/ \E path \in {PathTxt, None}, given \in DContents \cup {None} :
         \E disk \in DiskStates(given) : DetectContentType(path, given, disk)

Spec == Init /\ [][Next]_vars


(***************************************************************************)
(* Properties                                                               *)
(***************************************************************************)
\* a process_file call on a helper instance / a call on the dispatcher
HelperCall == helper \in Range(HelperTypes)
DispatcherCall == default_mode # NoMode

\* the dispatcher got as far as asking the selected helper
HelperAsked == DispatcherCall /\ pc = "done" /\ helper_result # NoResult

Reverse(ps) == [i \in 1..Len(ps) |-> ps[Len(ps) + 1 - i]]

\* C1: for every helper and every non-empty content, the text process_file
\* returns is no longer than the content or is exactly the content.
C1_NeverLargerUnlessEqual ==
    (HelperCall /\ pc = "done" /\ result.kind = "returned" /\ content # None /\ content # <<>>)
        => (Len(result.text) <= Len(content) \/ result.text = content)

\* C2: for a non-empty content and a valid content type, absent a size revert,
\* optimize_file returns the text that process_file(file_path, content) of a
\* helper instance of the selected type returns.
C2_ReturnsInstanceResult ==
    (HelperAsked /\ content_type \in Range(HelperTypes) /\ ~result.stats.reverted_to_original)
        => (result.kind = "returned"
            /\ result.text = InstanceProcessFile(content_type, file_path, content))

\* the highest confidence the helpers reported
TopScore == Max({scores[t] : t \in Range(HelperTypes)})

\* C3: detect_content_type returns the highest confidence together with the
\* type that reported it, the earliest such type in the order notion, email,
\* code, docs, markdown; below 0.3 it returns the default type instead, and
\* exactly 0.3 is not below.
C3_ArgMaxOrDefault ==
    (pc = "done" /\ result.kind = "returned") =>
        /\ confidence = TopScore
        /\ TopScore < LowConfidence => content_type = default_mode
        /\ TopScore >= LowConfidence =>
              /\ scores[content_type] = TopScore
              /\ \A j, k \in 1..Len(HelperTypes) :
                    (HelperTypes[k] = content_type /\ j < k) => scores[HelperTypes[j]] < TopScore

\* three helpers tie at exactly 0.3 behind a lower first one: the earliest of
\* the three is returned, not the default
C3_TieAtThreshold ==
    /\ pc = "done"
    /\ scores["notion"] = LowConfidence - 1
    /\ scores["email"] = LowConfidence
    /\ scores["code"] = LowConfidence
    /\ scores["docs"] = LowConfidence
    /\ confidence = LowConfidence
    /\ content_type = "email"
    /\ default_mode = "docs"

\* C4: process_file never propagates an exception, and every failure is
\* returned with an "error" entry in its stats.
C4_NoExceptionEscapes ==
    (HelperCall /\ pc = "done") =>
        /\ result.kind = "returned"
        /\ failed_stage # "none" => "error" \in result.stats.keys

\* C5: when a stage raises (in process_file, or under optimize_file) while the
\* content is available, the text the call returns is the original content,
\* not the empty string.
C5_OriginalContentOnFailure ==
    (pc = "done" /\ result.kind = "returned" /\ content # None /\ content # <<>>
        /\ (failed_stage # "none" \/ "error" \in result.stats.keys))
        => result.text = content

StageOrder == <<"NONE", "RAW", "PREPROCESSED", "OPTIMIZED", "POSTPROCESSED">>
StageIndex(st) == CHOOSE i \in 1..Len(StageOrder) : StageOrder[i] = st

\* the stage method s runs in this step
Runs(s) == ran'[s] > ran[s]

\* C6: the stages are passed in the order RAW, PREPROCESSED, OPTIMIZED,
\* POSTPROCESSED, one at a time and never backwards; preprocess, optimize and
\* postprocess run at most once each, each from the stage before it; after a
\* stage has failed no stage is run.
C6_StagesInOrder ==
    [][ /\ StageIndex(stage') \in {StageIndex(stage), StageIndex(stage) + 1}
        /\ \A s \in Range(Stages) : ran'[s] \in {ran[s], ran[s] + 1} /\ ran'[s] <= 1
        /\ Runs("preprocess") => stage = "RAW"
        /\ Runs("optimize") => stage = "PREPROCESSED"
        /\ Runs("postprocess") => stage = "OPTIMIZED"
        /\ failed_stage # "none" => (ran' = ran /\ stage' = stage)
        /\ (failed_stage' # "none" /\ failed_stage = "none") => stage' = stage
      ]_vars

\* a file has passed all three stages and the call has returned
C6_AllStagesRun ==
    /\ HelperCall
    /\ pc = "done"
    /\ stage = "POSTPROCESSED"
    /\ \A s \in Range(Stages) : ran[s] = 1
    /\ data.blocks # <<>>

\* C7: for the Markdown and the Docs helper, every fenced code block of the
\* content appears unchanged in the text after preprocess, optimize and
\* postprocess.
C7_CodeBlocksKept ==
    (helper \in {"markdown", "docs"} /\ stage = "POSTPROCESSED")
        => \A i \in 1..Len(data.blocks) : Contains(final, data.blocks[i])

\* C8: no placeholder that was inserted is left in the final text, and each
\* one is replaced by exactly the block it stood for: the final text of the
\* Markdown helper is the optimized text with every CODE_BLOCK_i replaced by
\* block i (the longer tokens first, so that each token is replaced as a
\* whole), then cleaned of blank-line runs as postprocess does.
C8_PlaceholdersRestored ==
    /\ (helper = "markdown" /\ stage = "POSTPROCESSED") =>
          /\ \A i \in 1..Len(data.blocks) : ~Contains(final, MdCodeToken(i - 1))
          /\ final = CollapseBlankLines(RestoreAll(optimized, Reverse(MdPairs(data.blocks))))
    /\ (helper = "docs" /\ stage = "POSTPROCESSED") =>
          \A i \in 1..Len(data.blocks) : ~Contains(final, DocsCodeToken(i - 1))

\* C9: when the text the selected helper gave is more than 5% longer than the
\* content, optimize_file returns the content; no text it returns is more
\* than 5% longer than the content.
C9_FivePercentRevert ==
    HelperAsked =>
        /\ result.kind = "returned"
        /\ (helper_result.kind = "returned" /\ 100 * Len(helper_result.text) > 105 * Len(content))
              => result.text = content
        /\ 100 * Len(result.text) <= 105 * Len(content)

\* the helper's text is 38 characters for a content of 36: more than 5%
\* longer, and the content is returned
C9_RevertedJustOver ==
    /\ HelperAsked
    /\ helper_result.kind = "returned"
    /\ 100 * Len(helper_result.text) > 105 * Len(content)
    /\ 100 * Len(helper_result.text) <= 106 * Len(content)
    /\ result.text = content

\* C10: a revert is recorded.  When process_file returns the content because
\* the final text was longer, its stats carry reverted_to_original = True and
\* size_increased = final length - original length; when optimize_file returns
\* the content because the helper's text was more than 5% longer, its stats
\* carry the same two entries and reverted_optimizations is incremented.
C10_RevertsRecorded ==
    /\ (HelperCall /\ pc = "done" /\ stage = "POSTPROCESSED" /\ result.kind = "returned"
            /\ Len(final) > Len(content) /\ result.text = content)
          => /\ {"size_increased", "reverted_to_original"} \subseteq result.stats.keys
             /\ result.stats.reverted_to_original
             /\ result.stats.size_increased = Len(final) - Len(content)
    /\ (HelperAsked /\ helper_result.kind = "returned"
            /\ 100 * Len(helper_result.text) > 105 * Len(content) /\ result.text = content)
          => /\ {"size_increased", "reverted_to_original"} \subseteq result.stats.keys
             /\ result.stats.reverted_to_original
             /\ result.stats.size_increased = Len(helper_result.text) - Len(content)
             /\ ustats.reverted_optimizations = 1

\* the Notion helper's final text carries the ID comment, is longer than the
\* content, and the call returns the content with the revert in its stats
C10_HelperReverted ==
    /\ helper = "notion"
    /\ pc = "done"
    /\ Len(final) > Len(content)
    /\ result.text = content
    /\ result.stats.reverted_to_original

\* C11: when postprocess gives an empty or null text for a non-empty content,
\* process_file returns the empty string and stats with an "error" entry.
C11_EmptyFinalIsFlagged ==
    (HelperCall /\ helper # "markdown" /\ pc = "done" /\ stage = "POSTPROCESSED"
        /\ content # <<>> /\ (final = <<>> \/ final = None))
        => (result.kind = "returned" /\ result.text = <<>> /\ "error" \in result.stats.keys)

\* C12: when optimize_directory returns, every file that passes the extension
\* filter has its entry in the mapping, whatever happened to the files before
\* it, and every file whose processing failed is recorded in the errors list.
FailedOutcomes == {i \in 1..Len(outcomes) : "error" \in outcomes[i].stats.keys}
C12_WalkRecordsEveryFailure ==
    (pc = "walked") =>
        /\ \A i \in 1..Len(directory) :
              ~FilteredOut(directory[i].path) => \E e \in optimized_files : e[1] = directory[i].path
        /\ Cardinality(FailedOutcomes) <= ustats.errors

\* C13: optimize_file called on a file with a force_mode that names no helper returns an
\* error that is not the error of a failed processing, and leaves the counters
\* of self.stats as they were before the call.
UnknownMode == force_mode # NoMode /\ force_mode \notin Range(HelperTypes)
C13_UnknownModeRejected ==
    (DispatcherCall /\ walk_pos = 0 /\ pc = "done" /\ UnknownMode /\ content # None) =>
        /\ "error" \in result.stats.keys
        /\ result.stats.error # "Error processing"
        /\ ustats = NoUStats

\* a helper's detect_content_type has returned
HelperDetected == HelperCall /\ pc = "detected"
NoContentPassed == detect_call.given = None

\* C14: detect_content_type of every helper returns 0.0 when no content is
\* passed and the file is missing or cannot be read, whatever the path is.
C14_ZeroWhenUnreadable ==
    (HelperDetected /\ NoContentPassed /\ detect_call.disk \in {Missing, Unreadable}) => confidence = 0

\* C15: detect_content_type of every helper returns a confidence between 0.0
\* and 1.0, whatever the path and the content are.
C15_ConfidenceInRange == HelperDetected => (confidence >= 0 /\ confidence <= 100)

\* the indicators of the Documentation helper add up to more than 1.0
C15_SumAboveOne ==
    /\ HelperDetected
    /\ helper = "docs"
    /\ content # None
    /\ DocsExtensionScore(file_path) + DocsContentScore(content) > 100
    /\ confidence = 100

\* C16: for a path ending in .eml and no content passed, the Email helper
\* answers at least 0.8 and more than every other helper answers for the same
\* path and the same file, whatever the file holds.
OtherAnswers ==
    {InstanceDetect(h, file_path, None, detect_call.disk, lexer) :
        h \in Range(HelperTypes) \ {"email"}, lexer \in Lexers}
C16_EmlBelongsToEmail ==
    (HelperDetected /\ helper = "email" /\ NoContentPassed /\ EndsWith(file_path, <<".", "e", "m", "l">>)) =>
        (confidence >= 80 /\ \A c \in OtherAnswers : c < confidence)

\* C17: cleaning a cleaned path gives the same path: when the path returned by
\* clean_file_path is cleaned again, the second result is the first.
C17_CleanIsIdempotent ==
    (helper = "notion" /\ pc = "recleaned") => result.text = file_path

\* C18: across the calls of clean_file_path on one helper, an entry of id_map
\* stays as it is: no cleaned path is mapped to another id later.
C18_IdMapStable == [][\A e \in id_map : e \in id_map']_vars

\* C19: a run of identical consecutive headings is collapsed to one: when a
\* Markdown or Docs helper has processed the file whose content is a heading,
\* the same heading again, a blank line and a line of text, the text it
\* returns has the heading once, and the duplicate-heading rule is recorded
\* as having fired.
C19_DuplicateHeadingCollapsed ==
    (HelperCall /\ helper \in {"markdown", "docs"} /\ pc = "done" /\ content = TitleTwice
        /\ (helper = "markdown" => rulesImportable))
        => /\ result.kind = "returned"
           /\ result.text = TitleOnce
           /\ (helper = "markdown" => "Duplicate Headings" \in result.stats.fired)

\* the frontmatter lines expected for each line of PropertyLines: the name
\* through the lookup table (Title and Name: title, Tags: tags, Published:
\* date, Summary: summary) or in lower case, a value in brackets as a sequence
ExpectedYaml ==
    << <<<<"t", "i", "t", "l", "e", ":", " ", "H", "e", "l", "l", "o">>>>,
       <<<<"t", "a", "g", "s", ":">>, <<" ", " ", "-", " ", "a">>, <<" ", " ", "-", " ", "b">>>>,
       <<<<"t", "i", "t", "l", "e", ":", " ", "a">>>>,
       <<<<"o", "w", "n", "e", "r", ":", " ", "b">>>>,
       <<<<"d", "a", "t", "e", ":">>, <<" ", " ", "-", " ", "a">>, <<" ", " ", "-", " ", "b">>>>,
       <<<<"s", "u", "m", "m", "a", "r", "y", ":", " ", "a", ":", " ", "b">>>> >>

\* '---', the expected lines of the picked properties, '---' and a blank line
ExpectedFrontmatter(picks) ==
    <<"-", "-", "-", NL>>
    \o ConcatAll([i \in 1..Len(picks) |->
                     ConcatAll([j \in 1..Len(ExpectedYaml[picks[i]]) |-> ExpectedYaml[picks[i]][j] \o <<NL>>])])
    \o <<"-", "-", "-", NL, NL>>

PropertiesExample == <<"P", "r", "o", "p", "e", "r", "t", "i", "e", "s", ":", NL, "T", "i", "t", "l", "e", ":", " ", "H", "e", "l", "l", "o", NL, "T", "a", "g", "s", ":", " ", "[", "a", ",", " ", "b", "]", NL>>
FrontmatterExample == <<"-", "-", "-", NL, "t", "i", "t", "l", "e", ":", " ", "H", "e", "l", "l", "o", NL, "t", "a", "g", "s", ":", NL, " ", " ", "-", " ", "a", NL, " ", " ", "-", " ", "b", NL, "-", "-", "-", NL, NL>>

\* C20: the Notion helper's optimize stage converts a Properties block into
\* YAML frontmatter: once optimize has run on a file that holds a block, the
\* optimized text is what preprocess put before the content, then '---', one
\* line 'name: value' for each property with its name mapped through the
\* lookup table (lower-cased when the table does not have it) or 'name:' and
\* one '  - item' line for each item of a value in brackets, then '---' and a
\* blank line, then what followed the block; the stats record the conversion
\* once.  The block Properties / Title: Hello / Tags: [a, b] becomes
\* --- / title: Hello / tags: / - a / - b / --- and a blank line.
C20_PropertiesBecomeFrontmatter ==
    (helper = "notion" /\ stage \in {"OPTIMIZED", "POSTPROCESSED"})
        => /\ \A h \in PropertyHeaders, ls \in PropertyPicks, tl \in PropertyTails :
                content = BlockOf(h, ls, tl)
                    => /\ optimized = SubSeq(data.content, 1, Len(data.content) - Len(content))
                                      \o ExpectedFrontmatter(ls) \o tl
                       /\ opt_stats.keys = {"Notion Properties"}
                       /\ opt_stats.total = 1
           /\ (content = PropertiesExample /\ file_path = PathTxt) => optimized = FrontmatterExample

\* optimize has run on the example block and gave the example frontmatter
C20_ExampleConverted ==
    /\ helper = "notion"
    /\ stage = "OPTIMIZED"
    /\ content = PropertiesExample
    /\ optimized = FrontmatterExample
    /\ "Notion Properties" \in opt_stats.keys

\* the lines of a text whose quote depth is in depths, in their order
LinesAtDepth(text, depths) == SelectSeq(SplitLines(text), LAMBDA l : QuoteLevel(l, 1) \in depths)

\* every quoted line of the text stands between '---' lines: the line before
\* it and the line after it are quoted lines or '---'
QuotedOrRule(l) == QuoteLevel(l, 1) > 0 \/ l = <<"-", "-", "-">>
QuotesWrapped(lines) ==
    \A i \in DOMAIN lines :
        QuoteLevel(lines[i], 1) > 0
            => /\ i > 1 /\ QuotedOrRule(lines[i - 1])
               /\ i < Len(lines) /\ QuotedOrRule(lines[i + 1])

\* C21: with max_quote_depth = 1, when the Email helper has optimized a body
\* that has quoted lines at depths 1, 2 and 3, the optimized text keeps
\* exactly the depth-1 quoted lines, each run of them between '---' lines,
\* and has no line of depth 2 or 3.
C21_DepthOneQuotesKept ==
    (helper = "email" /\ stage \in {"OPTIMIZED", "POSTPROCESSED"} /\ max_quote_depth = 1
        /\ \A d \in 1..3 : LinesAtDepth(content, {d}) # <<>>)
        => /\ LinesAtDepth(optimized, {1}) = LinesAtDepth(content, {1})
           /\ LinesAtDepth(optimized, {2, 3}) = <<>>
           /\ QuotesWrapped(SplitLines(optimized))

\* C22: for a Code input that is not empty, the text process_file of the Code
\* helper returns once its three stages have run ends with exactly one newline.
C22_CodeEndsWithOneNewline ==
    (HelperCall /\ helper = "code" /\ pc = "done" /\ stage = "POSTPROCESSED" /\ content # <<>>)
        => /\ result.kind = "returned"
           /\ EndsWith(result.text, <<NL>>)
           /\ ~EndsWith(result.text, <<NL, NL>>)

\* C24: optimize_file always returns a string as the file's text, never None:
\* whenever a call of optimize_file has returned, by whatever path (invalid
\* path, read error, empty content, helper failure, a helper that gave None),
\* the text of its result is a string.
C24_NeverReturnsNone ==
    (DispatcherCall /\ walk_pos = 0 /\ pc = "done")
        => (result.kind = "returned" /\ result.text # None)

\* C25: a helper instance carries nothing but its statistics from one file to
\* the next: the text and the per-rule counts of a file are those a fresh
\* instance gives for the same path and content by the same route, be it
\* process_file or the three stages called in order.
FreshData == PreprocessOf(helper, content, file_path)
FreshOptimized == OptimizeOf(helper, FreshData, rulesImportable)
FreshFinal(route) ==
    PostprocessOf(helper, FreshOptimized.text,
                  IF route = "done" /\ helper = "markdown" THEN FreshData ELSE NoData)

C25_NoStateBetweenFiles ==
    (HelperCall /\ pc \in {"done", "staged"} /\ stage = "POSTPROCESSED")
        => /\ final = FreshFinal(pc)
           /\ opt_stats.fired = FreshOptimized.stats.fired
           /\ opt_stats.total = FreshOptimized.stats.total

\* C26: the dispatcher creates a helper on the first request for a type and
\* hands out that same instance afterwards, so that the statistics of the one
\* instance per type accumulate: once a walk has cached a helper, get_stats
\* reports the statistics of every cached helper.
C26_CachedHelperStats ==
    (DispatcherCall /\ pc = "walked" /\ helpers # {})
        => /\ get_stats(helpers).kind = "returned"
           /\ "helper_stats" \in get_stats(helpers).stats.keys

TierRules(k) == SelectSeq(OPTIMIZATION_RULES_ORDERED, LAMBDA r : r.tier = k)
RulesByTier == TierRules(1) \o TierRules(2) \o TierRules(3) \o TierRules(4) \o TierRules(5) \o TierRules(6)
InTierOrder(d) == ApplyRules(d.content, RulesByTier, d.is_mdc \/ d.is_cursorrules, {})

C28_CatalogueInTierOrder ==
    (HelperCall /\ helper \in {"docs", "markdown", "notion"} /\ pc = "postprocess")
        => /\ opt_stats.fired = InTierOrder(data).stats.fired
           /\ (helper = "markdown" => optimized = InTierOrder(data).text)

\* C29: the placeholder tokens are unique, so the order of restoration does
\* not matter: for the Markdown helper, restoring the pairs of the file in
\* the order of insertion, as postprocess does, gives the text that restoring
\* them in the reverse order gives.
C29_RestoreOrderFree ==
    (HelperCall /\ helper = "markdown" /\ stage = "POSTPROCESSED")
        => RestoreAll(optimized, MdPairs(data.blocks))
             = RestoreAll(optimized, Reverse(MdPairs(data.blocks)))

\* C30: the cleaned paths are memoized: a clean_file_path call with a path the
\* helper has cleaned before returns what the first call returned and changes
\* neither id_map nor the counters notion_ids_count and cleaned_files.
CachedPath(path) == \E e \in cleaned_paths : e[1] = path
C30_CleanIsMemoized ==
    [][(helper = "notion" /\ pc' \in {"cleaned", "recleaned"} /\ CachedPath(file_path'))
          => /\ <<file_path', result'.text>> \in cleaned_paths
             /\ UNCHANGED <<id_map, cleaned_paths, helper_specific_data>>]_vars

\* the path a first call returned was cleaned again and found in the cache:
\* two calls were made and the helper holds one entry and counts one file
C30_CleanedTwice ==
    /\ helper = "notion"
    /\ pc = "recleaned"
    /\ Cardinality(cleaned_paths) = 1
    /\ helper_specific_data.cleaned_files = 1
    /\ <<file_path, result.text>> \in cleaned_paths

\* C23: a run on a directory with no qualifying file writes an output
\* document that holds the header and the placeholder directory-structure
\* block and no file, and reports files_processed = 0.
C23_EmptyDirectoryDocument ==
    (pc = "ran" /\ directory = <<>>)
        => /\ output_file.written
           /\ IsAt(output_file.text, 1, Header(mode))
           /\ Contains(output_file.text, generate_directory_tree(<<>>))
           /\ ~Contains(output_file.text, FileSeparator(<<>>))
           /\ report_stats.written
           /\ report_stats.files_processed = 0

====
